---------------------------- MODULE Spec2Model ----------------------------
(***************************************************************************)
(* A model of jade, a CHIP-8 emulator: the processor (src/processor.rs)    *)
(* and the executor thread that owns it, with its two channels             *)
(* (src/emulator.rs).                                                      *)
(*                                                                         *)
(* A Processor is a record with the fields of the Rust struct.  The        *)
(* vectors are written down by their non-default cells:                    *)
(*   - `display' (a Vec<bool> of 64*32 cells) is the set of the indices    *)
(*     whose cell is true;                                                 *)
(*   - `memory' (a Vec<u8> of MEMORY_SIZE cells) is the function from the  *)
(*     addresses whose cell is not 0 to that cell's value; Mem reads a     *)
(*     cell and MemSet writes one;                                         *)
(*   - a program (a Vec<u8>) is [len |-> its length, bytes |-> its bytes   *)
(*     up to the last one that is not 0]; ByteAt reads a byte.             *)
(* `blocking' (an Option<BlockingState>) is <<>> for None and              *)
(* <<keys_on_enter>> for Some.  A panic of the Rust code is the result     *)
(* kind "Panic".                                                           *)
(***************************************************************************)
EXTENDS Integers, Sequences, FiniteSets, TLC

\* ------------------------------------------------------------- constants
NUM_VARIABLE_REGISTERS == 16
FLAG_REGISTER_INDEX == 15
ROM_START_ADDR == 512
FONT_START_ADDR == 80
DISPLAY_WIDTH == 64
DISPLAY_HEIGHT == 32
MEMORY_SIZE == 4096
NUM_FONT_CHARS == 16
BYTES_PER_CHAR == 5
\* u16::MAX + 1 and u8::MAX + 1: the widths of the Rust integer types
U16 == 65536
U8 == 256

FONT ==
  << 240, 144, 144, 144, 240,   32,  96,  32,  32, 112,
     240,  16, 240, 128, 240,  240,  16, 240,  16, 240,
     144, 144, 240,  16,  16,  240, 128, 240,  16, 240,
     240, 128, 240, 144, 240,  240,  16,  32,  64,  64,
     240, 144, 240, 144, 240,  240, 144, 240,  16, 240,
     240, 144, 240, 144, 144,  224, 144, 224, 144, 224,
     240, 128, 128, 128, 240,  224, 144, 144, 144, 224,
     240, 128, 240, 128, 240,  240, 128, 240, 128, 128 >>

\* ------------------------------------------------------- bit arithmetic
RECURSIVE BitAnd(_, _)
BitAnd(a, b) ==
  IF a = 0 \/ b = 0 THEN 0
  ELSE (a % 2) * (b % 2) + 2 * BitAnd(a \div 2, b \div 2)

RECURSIVE BitOr(_, _)
BitOr(a, b) ==
  IF a = 0 THEN b
  ELSE IF b = 0 THEN a
  ELSE (IF a % 2 = 1 \/ b % 2 = 1 THEN 1 ELSE 0) + 2 * BitOr(a \div 2, b \div 2)

RECURSIVE BitXor(_, _)
BitXor(a, b) ==
  IF a = 0 THEN b
  ELSE IF b = 0 THEN a
  ELSE ((a + b) % 2) + 2 * BitXor(a \div 2, b \div 2)

\* nibble counting the half-bytes from the least significant one.
nibble_from_least(value, index) ==
  CASE index = 0 -> value % 16
    [] index = 1 -> (value \div 16) % 16
    [] index = 2 -> (value \div 256) % 16
    [] index = 3 -> (value \div 4096) % 16
    [] OTHER -> "Panic"

\* nibble(value, index): the half-byte of a 16-bit value, index 0 the highest;
\* any other index panics.
nibble(value, index) ==
  CASE index = 0 -> (value \div 4096) % 16
    [] index = 1 -> (value \div 256) % 16
    [] index = 2 -> (value \div 16) % 16
    [] index = 3 -> value % 16
    [] OTHER -> "Panic"

\* ------------------------------------------------------------ settings
\* InstructionSettings::default(): every switch off.
DefaultSettings ==
  [ use_vy_in_8xy6 |-> FALSE,
    use_vy_in_8xye |-> FALSE,
    use_bxnn_instead_bnnn |-> FALSE,
    set_vf_on_overflow_in_fx1e |-> FALSE,
    inc_i_in_fx55_and_fx65 |-> FALSE ]

\* ----------------------------------------------------------- processor
\* The cell of memory m at address a, for a < MEMORY_SIZE.
Mem(m, a) == IF a \in DOMAIN m THEN m[a] ELSE 0

\* Memory m with the cell at address a set to v, for a < MEMORY_SIZE.
MemSet(m, a, v) ==
  [x \in (IF v = 0 THEN DOMAIN m \ {a} ELSE DOMAIN m \cup {a}) |->
     IF x = a THEN v ELSE m[x]]

\* Byte i (from 1) of a program.
ByteAt(program_data, i) ==
  IF i <= Len(program_data.bytes) THEN program_data.bytes[i] ELSE 0

\* The memory whose cell at a is Cell(a) for the addresses of `range' and 0
\* elsewhere.
MemOf(range, Cell(_)) == [a \in { x \in range : Cell(x) # 0 } |-> Cell(a)]

\* vec![0; MEMORY_SIZE] with FONT copied to start..end, where the code takes
\* start = ROM_START_ADDR (not FONT_START_ADDR).
FontMemory ==
  LET start == ROM_START_ADDR
      end == start + BYTES_PER_CHAR * NUM_FONT_CHARS
      Cell(a) == FONT[a - start + 1]
  IN MemOf(start..(end - 1), Cell)

\* Processor::new
NewProcessor ==
  [ program_data |-> [len |-> 0, bytes |-> << >>],
    settings |-> DefaultSettings,
    memory |-> FontMemory,
    stack |-> << >>,
    program_counter |-> ROM_START_ADDR,
    display |-> {},
    index_register |-> 0,
    variable_registers |-> [r \in 0..(NUM_VARIABLE_REGISTERS - 1) |-> 0],
    delay_timer |-> 0,
    sound_timer |-> 0,
    blocking |-> << >>,
    keys |-> {} ]

\* load_settings taking over the first switch only. C27 tells it from
\* load_settings.
load_settings_first_switch(p, settings) ==
  [p EXCEPT !.settings.use_vy_in_8xy6 = settings.use_vy_in_8xy6]

\* Processor::load_settings
load_settings(p, settings) == [p EXCEPT !.settings = settings]

\* The memory of load_program with the two copies in the other order: the
\* font block is copied over the start of the ROM. C20 tells it from
\* LoadedMemory.
LoadedMemory_font_over_rom(program_data) ==
  LET start == ROM_START_ADDR
      end == start + program_data.len
      Cell(a) == IF a \in DOMAIN FontMemory THEN FontMemory[a]
                 ELSE IF a >= start /\ a < end
                      THEN ByteAt(program_data, a - start + 1)
                      ELSE 0
  IN MemOf(DOMAIN FontMemory \cup start..(start + Len(program_data.bytes) - 1), Cell)

\* The memory load_program builds: the font block, then the ROM over it from
\* ROM_START_ADDR.
LoadedMemory(program_data) ==
  LET start == ROM_START_ADDR
      end == start + program_data.len
      Cell(a) == IF a >= start /\ a < end THEN ByteAt(program_data, a - start + 1)
                 ELSE Mem(FontMemory, a)
  IN MemOf(DOMAIN FontMemory \cup start..(start + Len(program_data.bytes) - 1), Cell)

\* load_program with the reset moved in front of the size check: an oversize
\* program is still refused, but the registers, the stack, the display and the
\* timers of the program before are gone. C1 tells it from load_program.
load_program_reset_first(p, program_data) ==
  LET cleared == [p EXCEPT
                    !.stack = << >>,
                    !.program_counter = ROM_START_ADDR,
                    !.display = {},
                    !.index_register = 0,
                    !.variable_registers = [r \in 0..(NUM_VARIABLE_REGISTERS - 1) |-> 0],
                    !.delay_timer = 0,
                    !.sound_timer = 0]
  IN IF program_data.len > MEMORY_SIZE - ROM_START_ADDR
     THEN [p |-> cleared, result |-> [kind |-> "Err", error |-> "RomTooLarge"]]
     ELSE [p |-> [cleared EXCEPT !.program_data = program_data,
                                 !.memory = LoadedMemory(program_data)],
           result |-> [kind |-> "Ok"]]

\* Processor::load_program: [p |-> the processor afterwards, result |-> ...].
\* `blocking', `keys' and `settings' are not assigned.
load_program(p, program_data) ==
  IF program_data.len > MEMORY_SIZE - ROM_START_ADDR
  THEN [p |-> p, result |-> [kind |-> "Err", error |-> "RomTooLarge"]]
  ELSE [p |-> [p EXCEPT
                 !.program_data = program_data,
                 !.memory = LoadedMemory(program_data),
                 !.stack = << >>,
                 !.program_counter = ROM_START_ADDR,
                 !.display = {},
                 !.index_register = 0,
                 !.variable_registers = [r \in 0..(NUM_VARIABLE_REGISTERS - 1) |-> 0],
                 !.delay_timer = 0,
                 !.sound_timer = 0],
        result |-> [kind |-> "Ok"]]

\* handle_timer_tick with wrapping_sub in place of the tests for zero: a timer
\* at 0 becomes 255. C14 tells it from handle_timer_tick.
handle_timer_tick_wrapping(p) ==
  [p EXCEPT !.delay_timer = (p.delay_timer - 1) % U8,
            !.sound_timer = (p.sound_timer - 1) % U8]

\* Processor::handle_timer_tick
handle_timer_tick(p) ==
  [p EXCEPT
     !.delay_timer = IF p.delay_timer > 0 THEN p.delay_timer - 1 ELSE 0,
     !.sound_timer = IF p.sound_timer > 0 THEN p.sound_timer - 1 ELSE 0]

\* Processor::handle_keys
handle_keys(p, keys) == [p EXCEPT !.keys = keys]

\* Processor::playing_sound
playing_sound(p) == p.sound_timer > 0

\* Processor::display
display(p) == [content |-> p.display]

\* Display::get: the cell at y * DISPLAY_WIDTH + x of the content Vec, which
\* Processor::display fills with DISPLAY_WIDTH * DISPLAY_HEIGHT cells, and
\* false (unwrap_or) when that index is outside the Vec.
get(d, x, y) ==
  LET index == y * DISPLAY_WIDTH + x
  IN IF index < DISPLAY_WIDTH * DISPLAY_HEIGHT THEN index \in d.content ELSE FALSE

\* ------------------------------------------------------------ execute
\* Processor::register, Processor::set_register and Processor::set_flag_register.
\* Every index handed to them is a nibble (0..15) or a loop variable bounded by
\* one, so the RegisterIndexOutOfRange arm of the code is never taken.
register(p, index) == p.variable_registers[index]

set_register(p, index, value) ==
  [p EXCEPT !.variable_registers[index] = value]

set_flag_register(p, value) ==
  [p EXCEPT !.variable_registers[FLAG_REGISTER_INDEX] = value]

\* The outcome of execute: the processor afterwards and "Ok", the name of an
\* ExecutionError, or "Panic".
Done(p) == [p |-> p, res |-> "Ok"]

Fail(p, e) == [p |-> p, res |-> e]

\* What an instruction may draw on besides the processor: the byte random()
\* returns, the element HashSet::difference yields first, and whether u16
\* addition wraps on overflow (a release build) or panics (a debug build).
NoOracle == [rnd |-> 0, key |-> 0, wrap |-> FALSE]

\* Skip one instruction when `cond'.
Skip(p, cond) ==
  Done(IF cond THEN [p EXCEPT !.program_counter = p.program_counter + 2] ELSE p)

\* 8XY_ with the flag of 8XY4, 8XY5 and 8XY7 written before the result: with
\* X = 15 the result is what remains in VF. C21 tells it from
\* ExecuteArithmetic.
ExecuteArithmetic_flag_first(p, n) ==
  LET x == n[2]
      vx == register(p, n[2])
      vy == register(p, n[3])
  IN CASE n[4] = 0 -> Done(set_register(p, x, vy))
       [] n[4] = 1 -> Done(set_register(p, x, BitOr(vx, vy)))
       [] n[4] = 2 -> Done(set_register(p, x, BitAnd(vx, vy)))
       [] n[4] = 3 -> Done(set_register(p, x, BitXor(vx, vy)))
       [] n[4] = 4 ->
            Done(set_register(set_flag_register(p, IF vx + vy >= U8 THEN 1 ELSE 0),
                              x, (vx + vy) % U8))
       [] n[4] = 5 ->
            Done(set_register(set_flag_register(p, IF vx < vy THEN 0 ELSE 1),
                              x, (vx - vy) % U8))
       [] n[4] = 6 ->
            LET value == IF p.settings.use_vy_in_8xy6 THEN vy ELSE vx
            IN Done(set_register(set_flag_register(p, value % 2), x, value \div 2))
       [] n[4] = 7 ->
            Done(set_register(set_flag_register(p, IF vy < vx THEN 0 ELSE 1),
                              x, (vy - vx) % U8))
       [] n[4] = 14 ->
            LET value == IF p.settings.use_vy_in_8xye THEN vy ELSE vx
            IN Done(set_register(set_flag_register(p, value \div 128), x,
                                 (value * 2) % U8))
       [] OTHER -> Done(p)

\* 8XY_: arithmetic and logic instructions.
ExecuteArithmetic(p, n) ==
  LET x == n[2]
      vx == register(p, n[2])
      vy == register(p, n[3])
  IN CASE n[4] = 0 -> Done(set_register(p, x, vy))
       [] n[4] = 1 -> Done(set_register(p, x, BitOr(vx, vy)))
       [] n[4] = 2 -> Done(set_register(p, x, BitAnd(vx, vy)))
       [] n[4] = 3 -> Done(set_register(p, x, BitXor(vx, vy)))
       [] n[4] = 4 ->
            Done(set_flag_register(set_register(p, x, (vx + vy) % U8),
                                   IF vx + vy >= U8 THEN 1 ELSE 0))
       [] n[4] = 5 ->
            Done(set_flag_register(set_register(p, x, (vx - vy) % U8),
                                   IF vx < vy THEN 0 ELSE 1))
       [] n[4] = 6 ->
            LET value == IF p.settings.use_vy_in_8xy6 THEN vy ELSE vx
            IN Done(set_register(set_flag_register(p, value % 2), x, value \div 2))
       [] n[4] = 7 ->
            Done(set_flag_register(set_register(p, x, (vy - vx) % U8),
                                   IF vy < vx THEN 0 ELSE 1))
       [] n[4] = 14 ->
            LET value == IF p.settings.use_vy_in_8xye THEN vy ELSE vx
            IN Done(set_register(set_flag_register(p, value \div 128), x,
                                 (value * 2) % U8))
       \* 8XY8..8XYD and 8XYF match no arm of the inner chain, which has no
       \* else: execute falls through to Ok(()).
       [] OTHER -> Done(p)

\* The pixels of one sprite row with the columns taken modulo DISPLAY_WIDTH:
\* the bits past the right edge come back at the left edge. C24 tells it from
\* RowPixels.
RowPixels_wrapping(sprite_row, dx, dy) ==
  { dy * DISPLAY_WIDTH + ((dx + i) % DISPLAY_WIDTH) : i \in
      { j \in 0..7 : (sprite_row \div (2 ^ (7 - j))) % 2 = 1 } }

\* The pixels of one sprite row: the cells (dx + i, dy), i in 0..7, whose bit
\* (most significant first) is set, up to the right edge (the inner loop breaks
\* once dx reaches DISPLAY_WIDTH).
RowPixels(sprite_row, dx, dy) ==
  { dy * DISPLAY_WIDTH + dx + i : i \in
      { j \in 0..7 : dx + j < DISPLAY_WIDTH /\ (sprite_row \div (2 ^ (7 - j))) % 2 = 1 } }

\* The row loop of DXYN with set bits switching pixels on and never off. C23
\* tells it from DrawRows.
RECURSIVE DrawRows_or(_, _, _, _, _, _)
DrawRows_or(p, rows, n, dx, dy, acc) ==
  IF n >= rows THEN acc
  ELSE IF p.index_register + n >= MEMORY_SIZE THEN [acc EXCEPT !.res = "Panic"]
  ELSE LET pixels == RowPixels(Mem(p.memory, p.index_register + n), dx, dy)
           next == [ display |-> acc.display \cup pixels,
                     vf |-> IF pixels \cap acc.display # {} THEN 1 ELSE acc.vf,
                     res |-> "Ok" ]
       IN IF dy + 1 >= DISPLAY_HEIGHT THEN next
          ELSE DrawRows_or(p, rows, n + 1, dx, dy + 1, next)

\* The row loop of DXYN from row n on; acc is [display, vf, res].  Reading
\* memory[index_register + n] outside the Vec panics.
RECURSIVE DrawRows(_, _, _, _, _, _)
DrawRows(p, rows, n, dx, dy, acc) ==
  IF n >= rows THEN acc
  ELSE IF p.index_register + n >= MEMORY_SIZE THEN [acc EXCEPT !.res = "Panic"]
  ELSE LET pixels == RowPixels(Mem(p.memory, p.index_register + n), dx, dy)
           next == [ display |-> (acc.display \ pixels) \cup (pixels \ acc.display),
                     vf |-> IF pixels \cap acc.display # {} THEN 1 ELSE acc.vf,
                     res |-> "Ok" ]
       IN IF dy + 1 >= DISPLAY_HEIGHT THEN next
          ELSE DrawRows(p, rows, n + 1, dx, dy + 1, next)

\* DXYN: draw a sprite.
ExecuteDraw(p, n) ==
  LET dx == register(p, n[2]) % DISPLAY_WIDTH
      dy == register(p, n[3]) % DISPLAY_HEIGHT
      drawn == DrawRows(p, n[4], 0, dx, dy,
                        [display |-> p.display, vf |-> 0, res |-> "Ok"])
  IN [ p |-> [p EXCEPT !.display = drawn.display,
                       !.variable_registers[15] = drawn.vf],
       res |-> drawn.res ]

\* BlockingState::compare_and_update: the keys of keys_on_enter that are not in
\* `keys'; the code takes whichever the set iterator yields first.
Released(keys_on_enter, keys) == keys_on_enter \ keys

\* FX0A with the snapshot kept when a released key is found: the register is
\* written and the wait is not left. C11 tells it from ExecuteKeyWait.
ExecuteKeyWait_keeps_blocking(p, n, o) ==
  IF p.blocking # << >>
  THEN LET released == Released(p.blocking[1], p.keys)
       IN IF released # {}
          THEN LET key == IF o.key \in released THEN o.key
                          ELSE CHOOSE k \in released : TRUE
               IN Done([set_register(p, n[2], key) EXCEPT !.blocking = << p.keys >>])
          ELSE Done([p EXCEPT !.blocking = << p.keys >>,
                              !.program_counter = p.program_counter - 2])
  ELSE Done([p EXCEPT !.blocking = << p.keys >>,
                      !.program_counter = p.program_counter - 2])

\* FX0A without the rewind of the program counter when no key was released:
\* the wait is left after one poll. C10 tells it from ExecuteKeyWait.
ExecuteKeyWait_no_rewind(p, n, o) ==
  IF p.blocking # << >>
  THEN LET released == Released(p.blocking[1], p.keys)
       IN IF released # {}
          THEN LET key == IF o.key \in released THEN o.key
                          ELSE CHOOSE k \in released : TRUE
               IN Done([set_register(p, n[2], key) EXCEPT !.blocking = << >>])
          ELSE Done([p EXCEPT !.blocking = << p.keys >>])
  ELSE Done([p EXCEPT !.blocking = << p.keys >>,
                      !.program_counter = p.program_counter - 2])

\* FX0A: block until a key is released.
ExecuteKeyWait(p, n, o) ==
  IF p.blocking # << >>
  THEN LET released == Released(p.blocking[1], p.keys)
       IN IF released # {}
          THEN LET key == IF o.key \in released THEN o.key
                          ELSE CHOOSE k \in released : TRUE
               IN Done([set_register(p, n[2], key) EXCEPT !.blocking = << >>])
          ELSE Done([p EXCEPT !.blocking = << p.keys >>,
                              !.program_counter = p.program_counter - 2])
  ELSE Done([p EXCEPT !.blocking = << p.keys >>,
                      !.program_counter = p.program_counter - 2])

\* FX1E: add VX to the index register (u16 +=).
ExecuteAddIndex(p, n, o) ==
  LET sum == p.index_register + register(p, n[2])
  IN IF sum >= U16 /\ ~o.wrap THEN Fail(p, "Panic")
     ELSE LET q == [p EXCEPT !.index_register = sum % U16]
          IN Done(IF p.settings.set_vf_on_overflow_in_fx1e
                     /\ q.index_register >= MEMORY_SIZE
                  THEN set_register(q, 15, 1) ELSE q)

\* FX33: binary-coded decimal conversion; the three cells are indexed directly.
ExecuteBcd(p, n) ==
  LET value == register(p, n[2])
      I == p.index_register
  IN IF I + 2 >= MEMORY_SIZE THEN Fail(p, "Panic")
     ELSE Done([p EXCEPT !.memory =
                  MemSet(MemSet(MemSet(p.memory, I, value \div 100),
                                I + 1, (value % 100) \div 10),
                         I + 2, value % 10)])

\* The loop of FX55 over 0..max, VX left out.
RECURSIVE StoreRegisters_exclusive(_, _, _)
StoreRegisters_exclusive(p, max, i) ==
  IF i >= max
  THEN Done(IF p.settings.inc_i_in_fx55_and_fx65
            THEN [p EXCEPT !.index_register = p.index_register + max + 1]
            ELSE p)
  ELSE IF p.index_register + i >= MEMORY_SIZE
  THEN Fail(p, "MemoryAccessOutOfBounds")
  ELSE StoreRegisters_exclusive([p EXCEPT !.memory =
                         MemSet(p.memory, p.index_register + i, register(p, i))],
                      max, i + 1)

\* The loop of FX55 from register i on: set_memory fails outside the Vec and
\* the cells written before stay written.  The first address is the index
\* register itself, so the loop ends with an error before index_register + i
\* can pass u16::MAX.
RECURSIVE StoreRegisters(_, _, _)
StoreRegisters(p, max, i) ==
  IF i > max
  THEN Done(IF p.settings.inc_i_in_fx55_and_fx65
            THEN [p EXCEPT !.index_register = p.index_register + max + 1]
            ELSE p)
  ELSE IF p.index_register + i >= MEMORY_SIZE
  THEN Fail(p, "MemoryAccessOutOfBounds")
  ELSE StoreRegisters([p EXCEPT !.memory =
                         MemSet(p.memory, p.index_register + i, register(p, i))],
                      max, i + 1)

\* The loop of FX65 from register i on.
RECURSIVE LoadRegisters(_, _, _)
LoadRegisters(p, max, i) ==
  IF i > max
  THEN Done(IF p.settings.inc_i_in_fx55_and_fx65
            THEN [p EXCEPT !.index_register = p.index_register + max + 1]
            ELSE p)
  ELSE IF p.index_register + i >= MEMORY_SIZE
  THEN Fail(p, "MemoryAccessOutOfBounds")
  ELSE LoadRegisters(set_register(p, i, Mem(p.memory, p.index_register + i)),
                     max, i + 1)

\* EX__: key-test instructions.  Key::try_from fails for a value above 15 and
\* then nothing is skipped.
ExecuteKeyTest(p, n) ==
  LET value == register(p, n[2])
  IN CASE n[3] = 9 /\ n[4] = 14 -> Skip(p, value < 16 /\ value \in p.keys)
       [] n[3] = 10 /\ n[4] = 1 -> Skip(p, value < 16 /\ value \notin p.keys)
       [] OTHER -> Done(p)

\* FX__: timers, index register, key wait, font, BCD, bulk store and load.
ExecuteMisc(p, n, o) ==
  CASE n[3] = 0 /\ n[4] = 7 -> Done(set_register(p, n[2], p.delay_timer))
    [] n[3] = 1 /\ n[4] = 5 -> Done([p EXCEPT !.delay_timer = register(p, n[2])])
    [] n[3] = 1 /\ n[4] = 8 -> Done([p EXCEPT !.sound_timer = register(p, n[2])])
    [] n[3] = 1 /\ n[4] = 14 -> ExecuteAddIndex(p, n, o)
    [] n[3] = 0 /\ n[4] = 10 -> ExecuteKeyWait(p, n, o)
    [] n[3] = 2 /\ n[4] = 9 ->
         Done(IF register(p, n[2]) < 16
              THEN [p EXCEPT !.index_register = FONT_START_ADDR + register(p, n[2]) * 5]
              ELSE p)
    [] n[3] = 3 /\ n[4] = 3 -> ExecuteBcd(p, n)
    [] n[3] = 5 /\ n[4] = 5 -> StoreRegisters(p, n[2], 0)
    [] n[3] = 6 /\ n[4] = 5 -> LoadRegisters(p, n[2], 0)
    [] OTHER -> Done(p)

\* 00EE with the empty stack ignored: nothing is popped and Ok is returned.
\* C13 tells it from ExecuteReturn.
ExecuteReturn_ignores_empty(p) ==
  IF p.stack # << >>
  THEN Done([p EXCEPT !.program_counter = p.stack[Len(p.stack)],
                      !.stack = SubSeq(p.stack, 1, Len(p.stack) - 1)])
  ELSE Done(p)

\* 00EE: return from a subroutine by popping the last address from the stack.
ExecuteReturn(p) ==
  IF p.stack # << >>
  THEN Done([p EXCEPT !.program_counter = p.stack[Len(p.stack)],
                      !.stack = SubSeq(p.stack, 1, Len(p.stack) - 1)])
  ELSE Fail(p, "StackUnderflow")

\* Processor::execute, on the processor whose program counter step has already
\* advanced.  n[1..4] are nibbles[0..3].
execute(p, instruction, o) ==
  LET n == << nibble(instruction, 0), nibble(instruction, 1),
              nibble(instruction, 2), nibble(instruction, 3) >>
      nnn == instruction % 4096
      nn == instruction % 256
  IN CASE instruction = 224 -> Done([p EXCEPT !.display = {}])
       [] instruction = 238 -> ExecuteReturn(p)
       [] n[1] = 1 ->
            Done([p EXCEPT !.program_counter = nnn])
       [] n[1] = 2 ->
            Done([p EXCEPT !.stack = Append(p.stack, p.program_counter),
                           !.program_counter = nnn])
       [] n[1] = 3 -> Skip(p, register(p, n[2]) = nn)
       [] n[1] = 4 -> Skip(p, register(p, n[2]) # nn)
       [] n[1] = 5 -> Skip(p, register(p, n[2]) = register(p, n[3]))
       [] n[1] = 6 -> Done(set_register(p, n[2], nn))
       [] n[1] = 7 -> Done(set_register(p, n[2], (register(p, n[2]) + nn) % U8))
       [] n[1] = 8 -> ExecuteArithmetic(p, n)
       [] n[1] = 9 -> Skip(p, register(p, n[2]) # register(p, n[3]))
       [] n[1] = 10 -> Done([p EXCEPT !.index_register = nnn])
       [] n[1] = 11 ->
            Done([p EXCEPT !.program_counter =
                    nnn + (IF p.settings.use_bxnn_instead_bnnn
                           THEN register(p, n[2]) ELSE register(p, 0))])
       [] n[1] = 12 -> Done(set_register(p, n[2], BitAnd(o.rnd, nn)))
       [] n[1] = 13 -> ExecuteDraw(p, n)
       [] n[1] = 14 -> ExecuteKeyTest(p, n)
       [] n[1] = 15 -> ExecuteMisc(p, n, o)
       [] OTHER -> Fail(p, "UnknownInstruction")

\* Whether the two bytes step fetches are inside the memory Vec.
Fetchable(p) == p.program_counter + 1 < MEMORY_SIZE

\* The two bytes at the program counter read with u16::from_le_bytes. C25
\* tells it from FetchWord.
FetchWord_little_endian(p) ==
  Mem(p.memory, p.program_counter) + Mem(p.memory, p.program_counter + 1) * 256

\* u16::from_be_bytes of the two bytes at the program counter.
FetchWord(p) ==
  Mem(p.memory, p.program_counter) * 256 + Mem(p.memory, p.program_counter + 1)

\* Processor::step: fetch (an index outside the Vec panics), advance the
\* program counter by 2, execute, and wrap an ExecutionError with the address
\* and the instruction word.
step(p, o) ==
  IF ~Fetchable(p) THEN [p |-> p, result |-> [kind |-> "Panic"]]
  ELSE LET address == p.program_counter
           instruction == FetchWord(p)
           r == execute([p EXCEPT !.program_counter = address + 2], instruction, o)
       IN [ p |-> r.p,
            result |-> CASE r.res = "Ok" -> [kind |-> "Ok"]
                         [] r.res = "Panic" -> [kind |-> "Panic"]
                         [] OTHER -> [kind |-> "Err", address |-> address,
                                      instruction |-> instruction, error |-> r.res] ]

\* The oracles that matter to the next step of p: a random byte for CXNN, a
\* released key for a completing FX0A, both overflow behaviours for an FX1E
\* whose sum passes u16::MAX.
Oracles(p) ==
  IF ~Fetchable(p) THEN {NoOracle}
  ELSE LET w == FetchWord(p)
           keywait == nibble(w, 0) = 15 /\ w % 256 = 10
           addindex == nibble(w, 0) = 15 /\ w % 256 = 30
       IN [ rnd : IF nibble(w, 0) = 12 THEN 0..(U8 - 1) ELSE {0},
            key : IF keywait /\ p.blocking # << >>
                     /\ Released(p.blocking[1], p.keys) # {}
                  THEN Released(p.blocking[1], p.keys) ELSE {0},
            wrap : IF addindex
                      /\ p.index_register + register(p, nibble(w, 1)) >= U16
                   THEN BOOLEAN ELSE {FALSE} ]

\* ------------------------------------------------------------- inputs
\* Bounds of the model: how many requests the front end sends, how many ticks
\* the timer sends, and how many requests wait in the channel at once.
MaxSent == 3
MaxTicks == 2
MaxQueue == 2

\* A program of the given bytes and nothing after them.
Program(bytes) == [len |-> Len(bytes), bytes |-> bytes]

\* The programs that may be loaded.
\*   "max": 6102 (V1 = 2), F115 (delay timer = V1), F118 (sound timer = V1),
\*          1FFE (jump to the last
\*          fetchable address, which holds 0000), padded with zeros to the
\*          largest size that fits, MEMORY_SIZE - ROM_START_ADDR bytes;
\*   "over": one byte more than fits;
\*   "wait": F10A (wait for a key, into V1), 6005, 1200 (jump to the start);
\*   "jump": 1FFF (jump to the last address of memory);
\*   "bjump": 6001, BFFF (jump to 0xFFF + V0);
\*   "draw": AFFF (I = 0xFFF), D002 (a sprite of two rows), 1204 (jump to itself);
\*   "bcd": AFFE, F033 (BCD of V0 at I..I+2), 1204;
\*   "store": 6107, AFFF, F155 (V0..V1 to I..I+1), 1206 (jump to itself);
\*   "load": AFFF, F165 (V0..V1 from I..I+1), 1204;
\*   "undef": 8018, E000, F000, 5011 (skips the 0000 after it), 9011, 0123,
\*          120E (jump to itself);
\*   "ret": 2204 (call 0x204), 00EE, 00EE (at 0x204), 1206 (jump to itself);
\*   "count": 6000 thirteen times, and 0000 after them;
\*   "font": 6007 (V0 = 7), F029 (I = glyph of V0), 610F, F129, 1208 (jump to
\*          itself);
\*   "empty": no byte at all;
\*   "clear": 00E0 (clear the screen), 1202 (jump to itself).
Rom(name) ==
  CASE name = "max" -> [ len |-> MEMORY_SIZE - ROM_START_ADDR,
                         bytes |-> << 97, 2, 241, 21, 241, 24, 31, 254 >> ]
    [] name = "over" -> [ len |-> MEMORY_SIZE - ROM_START_ADDR + 1, bytes |-> << >> ]
    [] name = "wait" -> Program(<< 241, 10, 96, 5, 18, 0 >>)
    [] name = "jump" -> Program(<< 31, 255 >>)
    [] name = "bjump" -> Program(<< 96, 1, 191, 255 >>)
    [] name = "draw" -> Program(<< 175, 255, 208, 2, 18, 4 >>)
    [] name = "bcd" -> Program(<< 175, 254, 240, 51, 18, 4 >>)
    [] name = "store" -> Program(<< 97, 7, 175, 255, 241, 85, 18, 6 >>)
    [] name = "load" -> Program(<< 175, 255, 241, 101, 18, 4 >>)
    [] name = "undef" -> Program(<< 128, 24, 224, 0, 240, 0, 80, 17, 0, 0,
                                    144, 17, 1, 35, 18, 14 >>)
    [] name = "ret" -> Program(<< 34, 4, 0, 238, 0, 238, 18, 6 >>)
    [] name = "count" -> Program([i \in 1..26 |-> IF i % 2 = 1 THEN 96 ELSE 0]
                                   \o << 0, 0 >>)
    [] name = "font" -> Program(<< 96, 7, 240, 41, 97, 15, 241, 41, 18, 8 >>)
    [] name = "empty" -> Program(<< >>)
    [] name = "clear" -> Program(<< 0, 224, 18, 2 >>)

\* The programs the front end sends to the executor.
RomNames == {"max", "over"}

\* The programs load_program is called with in SpecProc.
ProcRomNames ==
  {"max", "over", "wait", "jump", "bjump", "draw", "bcd", "store", "load",
   "undef", "ret"}

\* The programs load_program is called with in SpecLoad.
LoadRomNames == {"empty", "font", "max", "over", "clear"}

\* The key sets handle_keys is called with in SpecProc.
ProcKeySets == {{}, {1}, {1, 2}}

\* Bound of SpecProc: step is not called on a stack deeper than this (a program
\* that calls without returning grows the stack without end).
MaxStack == 1

\* A settings record other than the default one.
OtherSettings ==
  [ use_vy_in_8xy6 |-> TRUE,
    use_vy_in_8xye |-> FALSE,
    use_bxnn_instead_bnnn |-> TRUE,
    set_vf_on_overflow_in_fx1e |-> TRUE,
    inc_i_in_fx55_and_fx65 |-> TRUE ]

\* The requests the front end may send (Request, without TimerTick).
ClientRequests ==
  { [type |-> "LoadSettings", settings |-> OtherSettings] }
    \cup { [type |-> "LoadProgram", rom |-> r] : r \in RomNames }
    \cup { [type |-> "RunProgram", speed |-> v] : v \in {60, 700} }
    \cup { [type |-> "Stop"], [type |-> "Step"], [type |-> "Display"],
           [type |-> "State"] }
    \cup { [type |-> "SendKeys", keys |-> {1}] }

TimerTick == [type |-> "TimerTick"]

\* The rates RunProgram is sent with in SpecRate, and the requests sent there.
Rates == {0, 60, 700, 124985}

RateRequests ==
  { [type |-> "LoadProgram", rom |-> "count"] }
    \cup { [type |-> "RunProgram", speed |-> v] : v \in Rates }

\* -------------------------------------------------------------- state
VARIABLES
  emulator,                     \* Executor.emulator: the Processor
  state,                        \* Executor.state: "Running" or "Stopped"
  speed,                        \* Executor.speed
  instruction_account_balance,  \* Executor.instruction_account_balance
  sound,                        \* the last call made on Executor.sound
  requests,                     \* the channel from the front end and the timer:
                                \*   [seq |-> place in the order of sending, msg |-> Request]
  responses,                    \* the channel back to the front end:
                                \*   [cause |-> seq of the request in flight, msg |-> Response]
  worker,                       \* Executor::start: "recv", "drain", "exited", "panicked"
  front,                        \* the Emulator handle: "alive", "dropped", "panicked"
  timer,                        \* the timer's closure and its Sender: "scheduled", "cancelled"
  sent,                         \* history: how many requests the front end and the timer sent
  current,                      \* history: seq and type of the request last dequeued
  returned,                     \* history: what the last call of Emulator::responses returned
  last                          \* history: the last call of step or load_program

vars == << emulator, state, speed, instruction_account_balance, sound, requests,
           responses, worker, front, timer, sent, current, returned, last >>

\* TIMER_INTERVAL, in microseconds
TIMER_INTERVAL == 16666

\* DEFAULT_INSTRUCTIONS_PER_SECOND
DEFAULT_INSTRUCTIONS_PER_SECOND == 700

\* The nanoseconds of a second, by which Duration::as_secs_f32 divides.
NANOS_PER_SEC == 1000000000

\* f32::MANTISSA_DIGITS: an f32 keeps 24 significant bits.
F32_MANTISSA_DIGITS == 24

Pow2(k) == 2 ^ k

\* The number of bits of x: the least n with x < 2^n.
RECURSIVE BitLen(_)
BitLen(x) == IF x = 0 THEN 0 ELSE 1 + BitLen(x \div 2)

\* The f32 division n / d for 0 < n < d < 2^30, both exact as f32: the binary
\* expansion of the quotient is produced bit by bit until the mantissa `m' has
\* F32_MANTISSA_DIGITS bits, and what is left is rounded to nearest, ties to
\* even.  The result [m, k] stands for m * 2^-k.
RECURSIVE F32Div(_, _, _, _)
F32Div(rem, d, m, k) ==
  IF m < Pow2(F32_MANTISSA_DIGITS - 1)
  THEN IF 2 * rem >= d THEN F32Div(2 * rem - d, d, 2 * m + 1, k + 1)
       ELSE F32Div(2 * rem, d, 2 * m, k + 1)
  ELSE [ m |-> IF 2 * rem > d \/ (2 * rem = d /\ m % 2 = 1) THEN m + 1 ELSE m,
         k |-> k ]

\* TIMER_INTERVAL.as_secs_f32(): 0 secs as f32 + nanos as f32 / 1e9 as f32.
as_secs_f32 == F32Div(TIMER_INTERVAL * 1000, NANOS_PER_SEC, 0, 0)

\* (instructions_per_second as f32 * TIMER_INTERVAL.as_secs_f32()).ceil()
\* as usize, for instructions_per_second < 2^24 (the conversion to f32 is
\* then exact).  The product of the two 24-bit mantissas is built from 12-bit
\* halves as hi * 2^24 + lo, rounded to F32_MANTISSA_DIGITS bits (nearest,
\* ties to even) as the f32 multiplication rounds it, and then rounded up to
\* a whole number.
InstructionsPerTick(instructions_per_second) ==
  LET t == as_secs_f32
      digits == F32_MANTISSA_DIGITS
      rh == instructions_per_second \div 4096
      rl == instructions_per_second % 4096
      mh == t.m \div 4096
      ml == t.m % 4096
      mid == rh * ml + rl * mh
      lo_sum == (mid % 4096) * 4096 + rl * ml
      lo == lo_sum % Pow2(digits)
      hi == rh * mh + mid \div 4096 + lo_sum \div Pow2(digits)
      len == IF hi > 0 THEN digits + BitLen(hi) ELSE BitLen(lo)
      d == IF len > digits THEN len - digits ELSE 0
      kept == hi * Pow2(digits - d) + lo \div Pow2(d)
      rem == lo % Pow2(d)
      m == IF d > 0 /\ (rem > Pow2(d - 1) \/ (rem = Pow2(d - 1) /\ kept % 2 = 1))
           THEN kept + 1 ELSE kept
      scale == Pow2(t.k - d)
  IN (m + scale - 1) \div scale

\* Executor::new, Emulator::new
Init ==
  /\ emulator = NewProcessor
  /\ state = "Stopped"
  /\ speed = DEFAULT_INSTRUCTIONS_PER_SECOND
  /\ instruction_account_balance = 0
  /\ sound = "new"
  /\ requests = << >>
  /\ responses = << >>
  /\ worker = "recv"
  /\ front = "alive"
  /\ timer = "scheduled"
  /\ sent = [client |-> 0, ticks |-> 0]
  /\ current = [seq |-> 0, type |-> "none"]
  /\ returned = << >>
  /\ last = [op |-> "none"]

\* ----------------------------------------------------------- executor
\* The fields of the Executor that handle reads and writes.
Executor ==
  [ emulator |-> emulator, state |-> state, speed |-> speed,
    instruction_account_balance |-> instruction_account_balance,
    sound |-> sound ]

\* Executor::handle_sound that tells the audio to play and never to pause.
handle_sound_never_pauses(ex) ==
  IF playing_sound(ex.emulator) THEN [ex EXCEPT !.sound = "play"] ELSE ex

\* Executor::handle_sound, for an executor whose audio was initialised
\* (Executor.sound is Some): the call it makes on it.
handle_sound(ex) ==
  [ex EXCEPT !.sound = IF playing_sound(ex.emulator) THEN "play" ELSE "pause"]

\* The highest address the instruction at the program counter of p reads or
\* writes through the index register (-1: none): DXYN reads one cell for each
\* of its N rows down to the bottom edge, FX33 writes three cells, FX55 and
\* FX65 write and read X + 1 cells.
DerefMax(p) ==
  IF ~Fetchable(p) THEN -1
  ELSE LET w == FetchWord(p)
           rows == LET dy == register(p, nibble(w, 2)) % DISPLAY_HEIGHT
                   IN IF w % 16 < DISPLAY_HEIGHT - dy THEN w % 16
                      ELSE DISPLAY_HEIGHT - dy
       IN CASE nibble(w, 0) = 13 /\ rows > 0 -> p.index_register + rows - 1
            [] nibble(w, 0) = 15 /\ w % 256 = 51 -> p.index_register + 2
            [] nibble(w, 0) = 15 /\ w % 256 \in {85, 101} ->
                 p.index_register + nibble(w, 1)
            [] OTHER -> -1

\* What a call of step leaves in `last': where it was called from, the
\* processor it was called on and its result.
StepRecord(from, p, r) ==
  [ op |-> "step", from |-> from, address |-> p.program_counter,
    instruction |-> IF Fetchable(p) THEN FetchWord(p) ELSE -1,
    deref |-> DerefMax(p),
    index_register |-> p.index_register, blocking |-> p.blocking,
    keys |-> p.keys, variable_registers |-> p.variable_registers,
    display |-> p.display, result |-> r.result ]

\* The Request::Step arm of Executor::handle with a failed step treated as the
\* drain loop treats it: the run state becomes Stopped. C9 tells it from
\* handle_step.
handle_step_stops_on_error(ex, o) ==
  LET r == step(ex.emulator, o)
  IN IF r.result.kind = "Panic"
     THEN [ ex |-> ex, out |-> << >>, panic |-> TRUE,
            call |-> StepRecord("handle", ex.emulator, r) ]
     ELSE [ ex |-> handle_sound([ex EXCEPT
                                   !.emulator = r.p,
                                   !.state = IF r.result.kind = "Err" THEN "Stopped"
                                             ELSE @]),
            out |-> << [type |-> "Step", result |-> r.result] >>,
            panic |-> FALSE, call |-> StepRecord("handle", ex.emulator, r) ]

\* The Request::Step arm of Executor::handle: step, handle_sound, and the
\* result sent as Response::Step. A panic in step unwinds the thread before
\* anything is sent.
handle_step(ex, o) ==
  LET r == step(ex.emulator, o)
  IN IF r.result.kind = "Panic"
     THEN [ ex |-> ex, out |-> << >>, panic |-> TRUE,
            call |-> StepRecord("handle", ex.emulator, r) ]
     ELSE [ ex |-> handle_sound([ex EXCEPT !.emulator = r.p]),
            out |-> << [type |-> "Step", result |-> r.result] >>,
            panic |-> FALSE, call |-> StepRecord("handle", ex.emulator, r) ]

\* The Request::TimerTick arm of Executor::handle without the test of the run
\* state: every tick sets the budget. C30 tells it from handle_tick.
handle_tick_budgets_always(ex) ==
  [ ex |-> [ex EXCEPT
              !.instruction_account_balance = InstructionsPerTick(ex.speed),
              !.emulator = handle_timer_tick(ex.emulator)],
    out |-> << >>, panic |-> FALSE, call |-> [op |-> "none"] ]

\* The Request::TimerTick arm of Executor::handle: the budget is set when
\* Running, and the timers are ticked in either state.
handle_tick(ex) ==
  [ ex |-> [ex EXCEPT
              !.instruction_account_balance =
                 IF ex.state = "Running" THEN InstructionsPerTick(ex.speed)
                 ELSE ex.instruction_account_balance,
              !.emulator = handle_timer_tick(ex.emulator)],
    out |-> << >>, panic |-> FALSE, call |-> [op |-> "none"] ]

\* Executor::handle: the executor afterwards, the responses sent, whether the
\* thread panicked, and the record of the processor call made.
handle(ex, msg, o) ==
  CASE msg.type = "LoadSettings" ->
         [ ex |-> [ex EXCEPT !.emulator = load_settings(ex.emulator, msg.settings)],
           out |-> << >>, panic |-> FALSE, call |-> [op |-> "none"] ]
    [] msg.type = "LoadProgram" ->
         LET r == load_program(ex.emulator, Rom(msg.rom))
         IN [ ex |-> [ex EXCEPT !.emulator = r.p],
              out |-> << [type |-> "LoadProgram", result |-> r.result] >>,
              panic |-> FALSE,
              call |-> [op |-> "load_program", result |-> r.result] ]
    [] msg.type = "Step" -> handle_step(ex, o)
    [] msg.type = "RunProgram" ->
         [ ex |-> [ex EXCEPT !.speed = msg.speed, !.state = "Running"],
           out |-> << >>, panic |-> FALSE, call |-> [op |-> "none"] ]
    [] msg.type = "Display" ->
         [ ex |-> ex, out |-> << [type |-> "Display", display |-> display(ex.emulator)] >>,
           panic |-> FALSE, call |-> [op |-> "none"] ]
    [] msg.type = "State" ->
         [ ex |-> ex, out |-> << [type |-> "State", state |-> ex.state] >>,
           panic |-> FALSE, call |-> [op |-> "none"] ]
    [] msg.type = "Stop" ->
         [ ex |-> [ex EXCEPT !.state = "Stopped"],
           out |-> << >>, panic |-> FALSE, call |-> [op |-> "none"] ]
    [] msg.type = "TimerTick" -> handle_tick(ex)
    [] msg.type = "SendKeys" ->
         [ ex |-> [ex EXCEPT !.emulator = handle_keys(ex.emulator, msg.keys)],
           out |-> << >>, panic |-> FALSE, call |-> [op |-> "none"] ]

\* One pass of the while loop whose Err arm stops the program and sends the
\* error but charges the failed step to the budget like any other step.
drain_keeps_budget(ex, o) ==
  LET r == step(ex.emulator, o)
      call == StepRecord("drain", ex.emulator, r)
  IN CASE r.result.kind = "Panic" ->
            [ ex |-> ex, out |-> << >>, panic |-> TRUE, call |-> call ]
       [] r.result.kind = "Ok" ->
            [ ex |-> [ex EXCEPT !.emulator = r.p,
                                !.instruction_account_balance = @ - 1],
              out |-> << >>, panic |-> FALSE, call |-> call ]
       [] r.result.kind = "Err" ->
            [ ex |-> [ex EXCEPT !.emulator = r.p,
                                !.state = "Stopped",
                                !.instruction_account_balance = @ - 1],
              out |-> << [type |-> "RunError", error |-> r.result] >>,
              panic |-> FALSE, call |-> call ]

\* One pass of the while loop of Executor::start.
drain(ex, o) ==
  LET r == step(ex.emulator, o)
      call == StepRecord("drain", ex.emulator, r)
  IN CASE r.result.kind = "Panic" ->
            [ ex |-> ex, out |-> << >>, panic |-> TRUE, call |-> call ]
       [] r.result.kind = "Ok" ->
            [ ex |-> [ex EXCEPT !.emulator = r.p,
                                !.instruction_account_balance = @ - 1],
              out |-> << >>, panic |-> FALSE, call |-> call ]
       [] r.result.kind = "Err" ->
            [ ex |-> [ex EXCEPT !.emulator = r.p,
                                !.state = "Stopped",
                                !.instruction_account_balance = 0],
              out |-> << [type |-> "RunError", error |-> r.result] >>,
              panic |-> FALSE, call |-> call ]

\* mpsc::Receiver::recv on a channel that holds a message: the oldest one is
\* taken.
Recv(channel) == [msg |-> Head(channel), rest |-> Tail(channel)]

\* mpsc::Sender::send
Enqueue(channel, m) == Append(channel, m)

\* The drain loop written as an `if': it is left after handle whatever the
\* balance is. C6 tells it from LoopLeft.
LoopLeft_at_once(ex) == TRUE

\* The condition of the while loop of Executor::start, negated: the loop is
\* left when the balance is not above zero.
LoopLeft(ex) == ~(ex.instruction_account_balance > 0)

\* The executor thread after `h', the outcome of handle or of a pass of the
\* drain loop, for request number n: with the balance at zero the loop is left,
\* handle_sound is called and the thread waits for the next request.
Continue(h, n) ==
  LET done == LoopLeft(h.ex)
      ex == IF done /\ ~h.panic THEN handle_sound(h.ex) ELSE h.ex
  IN /\ emulator' = ex.emulator
     /\ state' = ex.state
     /\ speed' = ex.speed
     /\ instruction_account_balance' = ex.instruction_account_balance
     /\ sound' = ex.sound
     /\ responses' = responses \o [i \in DOMAIN h.out |-> [cause |-> n, msg |-> h.out[i]]]
     /\ worker' = IF h.panic THEN "panicked" ELSE IF done THEN "recv" ELSE "drain"
     /\ last' = IF h.call.op = "none" THEN [op |-> "none"] ELSE h.call

\* Executor::start: receive a request and handle it.
Receive ==
  /\ worker = "recv"
  /\ requests # << >>
  /\ LET got == Recv(requests)
     IN /\ \E o \in Oracles(emulator) :
             Continue(handle(Executor, got.msg.msg, o), got.msg.seq)
        /\ requests' = got.rest
        /\ current' = [seq |-> got.msg.seq, type |-> got.msg.msg.type]
  /\ UNCHANGED << front, timer, sent, returned >>

\* Executor::start: one pass of the drain loop.
Drain ==
  /\ worker = "drain"
  /\ \E o \in Oracles(emulator) : Continue(drain(Executor, o), current.seq)
  /\ UNCHANGED << requests, front, timer, sent, current, returned >>

\* The loop of Executor::start left as soon as every Sender is dropped, with
\* requests still in the channel. C16 tells it from Exit.
Exit_on_close ==
  /\ worker = "recv"
  /\ front # "alive"
  /\ timer = "cancelled"
  /\ worker' = "exited"
  /\ UNCHANGED << emulator, state, speed, instruction_account_balance, sound,
                  requests, responses, front, timer, sent, current, returned, last >>

\* Executor::start: recv fails once the channel is empty and every Sender is
\* dropped; the loop breaks.
Exit ==
  /\ worker = "recv"
  /\ requests = << >>
  /\ front # "alive"
  /\ timer = "cancelled"
  /\ worker' = "exited"
  /\ UNCHANGED << emulator, state, speed, instruction_account_balance, sound,
                  requests, responses, front, timer, sent, current, returned, last >>

\* ---------------------------------------------------- front end, timer
\* Whether the executor still holds the Receiver of the request channel.
ReceiverAlive == worker \in {"recv", "drain"}

\* Emulator::load_settings .. Emulator::send_keys: send, and panic (expect)
\* when the channel is closed.
SendOf(reqs, bound) ==
  /\ front = "alive"
  /\ sent.client < bound
  /\ Len(requests) < MaxQueue
  /\ \E req \in reqs :
       IF ReceiverAlive
       THEN /\ requests' = Enqueue(requests, [seq |-> sent.client + sent.ticks + 1,
                                              msg |-> req])
            /\ sent' = [sent EXCEPT !.client = @ + 1]
            /\ front' = front
       ELSE /\ front' = "panicked"
            /\ UNCHANGED << requests, sent >>
  /\ UNCHANGED << emulator, state, speed, instruction_account_balance, sound,
                  responses, worker, timer, current, returned, last >>

SendUpTo(bound) == SendOf(ClientRequests, bound)

\* The closure scheduled in Emulator::new: send a tick; the result of send is
\* dropped, so a closed channel changes nothing.
TickUpTo(bound) ==
  /\ timer = "scheduled"
  /\ sent.ticks < bound
  /\ Len(requests) < MaxQueue
  /\ ReceiverAlive
  /\ requests' = Enqueue(requests, [seq |-> sent.client + sent.ticks + 1,
                                    msg |-> TimerTick])
  /\ sent' = [sent EXCEPT !.ticks = @ + 1]
  /\ UNCHANGED << emulator, state, speed, instruction_account_balance, sound,
                  responses, worker, front, timer, current, returned, last >>

\* Emulator::responses is called: the vector to return starts empty.  While
\* the call runs (front = "responses") `returned' is that vector, and after it
\* the vector the call returned.
Responses ==
  /\ front = "alive"
  /\ front' = "responses"
  /\ returned' = << >>
  /\ UNCHANGED << emulator, state, speed, instruction_account_balance, sound,
                  requests, responses, worker, timer, sent, current, last >>

\* The loop of Emulator::responses with recv in place of try_recv: on an empty
\* channel it waits for the executor while the executor lives. C17 tells it
\* from TryRecv.
TryRecv_waits ==
  /\ front = "responses"
  /\ responses # << >> \/ ~ReceiverAlive
  /\ IF responses # << >>
     THEN /\ returned' = Append(returned, Recv(responses).msg)
          /\ responses' = Recv(responses).rest
          /\ front' = front
     ELSE /\ front' = "alive"
          /\ UNCHANGED << returned, responses >>
  /\ UNCHANGED << emulator, state, speed, instruction_account_balance, sound,
                  requests, worker, timer, sent, current, last >>

\* One pass of the loop of Emulator::responses: try_recv takes the oldest
\* response when there is one, and otherwise (Empty, or Disconnected once the
\* executor thread is gone) the loop is left and the vector returned.
TryRecv ==
  /\ front = "responses"
  /\ IF responses # << >>
     THEN /\ returned' = Append(returned, Recv(responses).msg)
          /\ responses' = Recv(responses).rest
          /\ front' = front
     ELSE /\ front' = "alive"
          /\ UNCHANGED << returned, responses >>
  /\ UNCHANGED << emulator, state, speed, instruction_account_balance, sound,
                  requests, worker, timer, sent, current, last >>

\* The Emulator is dropped: its Sender, its Receiver and the timer's Guard go.
Drop ==
  /\ front = "alive"
  /\ front' = "dropped"
  /\ UNCHANGED << emulator, state, speed, instruction_account_balance, sound,
                  requests, responses, worker, timer, sent, current, returned, last >>

\* The timer thread drops the cancelled closure, and with it the last Sender.
Cancel ==
  /\ front = "dropped"
  /\ timer = "scheduled"
  /\ timer' = "cancelled"
  /\ UNCHANGED << emulator, state, speed, instruction_account_balance, sound,
                  requests, responses, worker, front, sent, current, returned, last >>

Send == SendUpTo(MaxSent)

Tick == TickUpTo(MaxTicks)

\* The executor with its two senders.
Next == Receive \/ Drain \/ Send \/ Tick

Spec == Init /\ [][Next]_vars

\* The executor driven with RunProgram at the rates of Rates.
SendRate == SendOf(RateRequests, MaxSent)

NextRate == Receive \/ Drain \/ SendRate \/ Tick

SpecRate == Init /\ [][NextRate]_vars

\* The executor with the whole life of its front end: requests, ticks, calls
\* of responses, the drop of the Emulator and the end of the timer.  The
\* executor thread is a thread of its own that the scheduler keeps running,
\* hence the weak fairness of its three steps.
MaxLifeSent == 3
MaxLifeTicks == 1

LifeRequests ==
  { [type |-> "LoadProgram", rom |-> "max"], [type |-> "RunProgram", speed |-> 700],
    [type |-> "Step"], [type |-> "State"] }

SendLife == SendOf(LifeRequests, MaxLifeSent)

TickLife == TickUpTo(MaxLifeTicks)

NextLife ==
  Receive \/ Drain \/ Exit \/ SendLife \/ TickLife \/ Responses \/ TryRecv
    \/ Drop \/ Cancel

\* Receive seen from the request channel: it is the one step that takes the
\* head of `requests', and it can be taken whenever recv has a request.
ReceiveTaken ==
  /\ worker = "recv"
  /\ requests # << >>
  /\ requests' = Tail(requests)

\* Drain seen from the balance: it is the one step taken inside the while loop,
\* and each pass lowers the balance or panics.
DrainTaken ==
  /\ worker = "drain"
  /\ worker' \in {"recv", "drain", "panicked"}
  /\ instruction_account_balance' \in 0..instruction_account_balance

SpecLife ==
  Init /\ [][NextLife]_vars
    /\ WF_requests(ReceiveTaken)
    /\ WF_<< worker, instruction_account_balance >>(DrainTaken)
    /\ WF_vars(Exit)

\* ---------------------------------------------------------- processor
\* SpecProc: the Processor alone, its methods called in any order (the order
\* is the front end's to choose), with no limit on the number of calls.
HostVars == << state, speed, instruction_account_balance, sound, requests,
               responses, worker, front, timer, sent, current, returned >>

\* A panic unwinds the executor thread and drops the Processor.
ProcAlive == ~(last.op = "step" /\ last.result.kind = "Panic")

ProcLoadPrograms(programs) ==
  /\ ProcAlive
  /\ \E program_data \in programs :
       LET r == load_program(emulator, program_data)
       IN /\ emulator' = r.p
          /\ last' = [op |-> "load_program", result |-> r.result]
  /\ UNCHANGED HostVars

ProcLoadOf(names) == ProcLoadPrograms({ Rom(name) : name \in names })

ProcLoad == ProcLoadOf(ProcRomNames)

ProcStep ==
  /\ ProcAlive
  /\ Len(emulator.stack) <= MaxStack
  /\ \E o \in Oracles(emulator) :
       LET r == step(emulator, o)
       IN /\ emulator' = r.p
          /\ last' = StepRecord("handle", emulator, r)
  /\ UNCHANGED HostVars

ProcKeys ==
  /\ ProcAlive
  /\ \E keys \in ProcKeySets :
       /\ emulator' = handle_keys(emulator, keys)
       /\ last' = [op |-> "handle_keys"]
  /\ UNCHANGED HostVars

ProcTick ==
  /\ ProcAlive
  /\ emulator' = handle_timer_tick(emulator)
  /\ last' = [op |-> "handle_timer_tick"]
  /\ UNCHANGED HostVars

ProcSettingsOf(records) ==
  /\ ProcAlive
  /\ \E settings \in records :
       /\ emulator' = load_settings(emulator, settings)
       /\ last' = [op |-> "load_settings"]
  /\ UNCHANGED HostVars

ProcSettings == ProcSettingsOf({DefaultSettings, OtherSettings})

NextProc == ProcLoad \/ ProcStep \/ ProcKeys \/ ProcTick \/ ProcSettings

SpecProc == Init /\ [][NextProc]_vars

\* SpecLoad: the Processor loaded with programs of the smallest and the
\* largest size and stepped through them, and through the font block that
\* Processor::new and load_program leave at ROM_START_ADDR.
LoadAny == ProcLoadOf(LoadRomNames)

NextLoad == LoadAny \/ ProcStep \/ ProcTick

SpecLoad == Init /\ [][NextLoad]_vars

\* SpecAlu: a fresh Processor, given one of the four settings of the two shift
\* quirks, loaded with one program that sets VX and VY and executes one of
\* 8XY4, 8XY5, 8XY6, 8XY7, 8XYE, and stepped through it.
\*   AluProgram: 6X vx, 6Y vy, 8XYk, 1206 (jump to itself).
AluValues == {0, 1, 2, 127, 128, 129, 254, 255}

AluRegisters == { << 0, 1 >>, << 15, 1 >>, << 0, 15 >>, << 15, 15 >> }

AluOps == {4, 5, 6, 7, 14}

AluProgram(x, y, vx, vy, k) ==
  Program(<< 96 + x, vx, 96 + y, vy, 128 + x, y * 16 + k, 18, 6 >>)

AluPrograms ==
  { AluProgram(xy[1], xy[2], vx, vy, k) :
      xy \in AluRegisters, vx \in AluValues, vy \in AluValues, k \in AluOps }

ShiftSettings ==
  { [DefaultSettings EXCEPT !.use_vy_in_8xy6 = a, !.use_vy_in_8xye = b] :
      a \in BOOLEAN, b \in BOOLEAN }

\* Nothing was loaded or stepped yet: the next program is the first one.
Fresh == last.op \in {"none", "load_settings"}

LoadAlu == Fresh /\ ProcLoadPrograms(AluPrograms)

SettingsAlu == Fresh /\ ProcSettingsOf(ShiftSettings)

NextAlu == LoadAlu \/ SettingsAlu \/ ProcStep

SpecAlu == Init /\ [][NextAlu]_vars

\* SpecDraw: a fresh Processor loaded with one program that draws the first
\* `pre' rows of a sprite at (60, 30), so that the framebuffer is empty
\* (pre = 0) or not, and then draws the whole sprite twice at (VX, V3), X
\* being 2 or 15.
\*   DrawProgram: 603C, 611E, A214, D01p, 6X vx, 63 vy, A214, DX3n, DX3n, 1212
\*   (jump to itself), and the n bytes of the sprite from 0x214 on.
DrawColumns == {0, 1, 57, 60, 63, 124, 255}

DrawRowValues == {0, 29, 31, 62, 255}

Sprites ==
  { << 255, 129, 255 >>, << 1 >>, << 0, 0 >>, [i \in 1..15 |-> 170] }

DrawProgram(pre, x, vx, vy, sprite) ==
  Program(<< 96, 60, 97, 30, 162, 20, 208, 16 + pre,
             96 + x, vx, 99, vy, 162, 20,
             208 + x, 48 + Len(sprite), 208 + x, 48 + Len(sprite), 18, 18 >>
          \o sprite)

DrawPrograms ==
  { DrawProgram(pre, x, vx, vy, sprite) :
      pre \in {0, 1}, x \in {2, 15}, vx \in DrawColumns, vy \in DrawRowValues,
      sprite \in Sprites }

LoadDraw == Fresh /\ ProcLoadPrograms(DrawPrograms)

NextDraw == LoadDraw \/ ProcStep

SpecDraw == Init /\ [][NextDraw]_vars

\* SpecGet: a fresh Processor loaded with one of a few of the drawing
\* programs and stepped through it, and Display::get called on the snapshot
\* of its framebuffer at coordinates inside and outside the display.
GetPrograms ==
  { DrawProgram(pre, 2, vx, vy, << 255, 129, 255 >>) :
      pre \in {0, 1}, vx \in {0, 60}, vy \in {0, 30} }

GetColumns == {0, 1, 7, 60, 63, 64, 65, 255}

GetRows == {0, 1, 30, 31, 32, 255}

LoadGet == Fresh /\ ProcLoadPrograms(GetPrograms)

ProcGet ==
  /\ ProcAlive
  /\ \E x \in GetColumns, y \in GetRows :
       last' = [op |-> "get", x |-> x, y |-> y,
                result |-> get(display(emulator), x, y)]
  /\ UNCHANGED emulator
  /\ UNCHANGED HostVars

NextGet == LoadGet \/ ProcStep \/ ProcGet

SpecGet == Init /\ [][NextGet]_vars

\* SpecBulk: a fresh Processor, with the index-advance switch on or off, loaded
\* with one program that sets V0, V1 and VF, points I at an address and runs
\* FX55 and then FX65.
\*   BulkProgram: 60 a, 61 b, 6F c, Annn, FX55, FX65, 120C (jump to itself).
\* The addresses are the first font cell, the cell below the program (so that
\* with the switch on FX65 reads the program's own bytes), a free cell, and
\* the last cells of memory, where V0..VX fit exactly (0xFF0 for X = 15,
\* 0xFFF for X = 0) or do not fit.
BulkRegisters == {0, 1, 2, 15}

BulkAddresses == {80, 511, 768, 4080, 4094, 4095}

BulkValues == {<<0, 0, 0>>, <<7, 9, 0>>, <<255, 0, 1>>, <<1, 255, 3>>}

BulkProgram(x, nnn, v) ==
  Program(<< 96, v[1], 97, v[2], 111, v[3], 160 + nnn \div 256, nnn % 256,
             240 + x, 85, 240 + x, 101, 18, 12 >>)

BulkPrograms ==
  { BulkProgram(x, nnn, v) :
      x \in BulkRegisters, nnn \in BulkAddresses, v \in BulkValues }

AdvanceSettings ==
  { [DefaultSettings EXCEPT !.inc_i_in_fx55_and_fx65 = a] : a \in BOOLEAN }

LoadBulk == Fresh /\ ProcLoadPrograms(BulkPrograms)

SettingsBulk == Fresh /\ ProcSettingsOf(AdvanceSettings)

NextBulk == LoadBulk \/ SettingsBulk \/ ProcStep

SpecBulk == Init /\ [][NextBulk]_vars

\* SpecIndex: a fresh Processor, with the default or the other settings, loaded
\* with one program that adds V0 = 255 to the index register over and over,
\* starting from 0xFFF, and after each addition stores or loads V0..VX there.
\*   IndexProgram: 60FF, AFFF, F01E, FX55 or FX65, 1204 (jump to the F01E).
IndexPrograms ==
  { Program(<< 96, 255, 175, 255, 240, 30, 240 + x, low, 18, 4 >>) :
      x \in {0, 15}, low \in {85, 101} }

LoadIndex == Fresh /\ ProcLoadPrograms(IndexPrograms)

SettingsIndex == Fresh /\ ProcSettingsOf({DefaultSettings, OtherSettings})

NextIndex == LoadIndex \/ SettingsIndex \/ ProcStep

SpecIndex == Init /\ [][NextIndex]_vars

\* SpecNibble: nibble applied once to 16-bit words whose four half-bytes are each
\* one of five values, lowest and highest included, with the indexes 0..3
\* and indexes above them (index is a u8).
NibbleDigits == {0, 1, 7, 8, 15}

NibbleWords ==
  { a * 4096 + b * 256 + c * 16 + d :
      a \in NibbleDigits, b \in NibbleDigits, c \in NibbleDigits, d \in NibbleDigits }

NibbleIndexes == {0, 1, 2, 3, 4, 255}

ProcNibble ==
  /\ Fresh
  /\ \E value \in NibbleWords, index \in NibbleIndexes :
       last' = [op |-> "nibble", value |-> value, index |-> index,
                result |-> nibble(value, index)]
  /\ UNCHANGED emulator
  /\ UNCHANGED HostVars

NextNibble == ProcNibble

SpecNibble == Init /\ [][NextNibble]_vars

\* ------------------------------------------------------------ claims
\* The executor thread takes the request of type t from the channel.
ReceiveOf(t) ==
  /\ worker = "recv"
  /\ requests # << >>
  /\ Head(requests).msg.type = t
  /\ current' # current

\* The executor thread makes one pass of its drain loop.
DrainStep == worker = "drain" /\ sent' = sent

\* The response the executor sends for the request at the head of the channel.
ResponseTo(msg) == [cause |-> Head(requests).seq, msg |-> msg]

\* C1: a LoadProgram request with a program of up to 3584 bytes is answered
\* with success, and one with a longer program is answered with the
\* RomTooLarge loading error and leaves the whole processor (memory,
\* registers, index register, program counter, stack, display, timers, keys,
\* blocking state, settings) and the executor's run state, speed and budget as
\* they were.
C1_OversizeRejectedAtomically ==
  [][ ReceiveOf("LoadProgram") =>
        LET len == Rom(Head(requests).msg.rom).len
        IN /\ len <= 3584 =>
                /\ responses' = Append(responses,
                      ResponseTo([type |-> "LoadProgram", result |-> [kind |-> "Ok"]]))
                /\ emulator'.program_data = Rom(Head(requests).msg.rom)
           /\ len > 3584 =>
                /\ responses' = Append(responses,
                      ResponseTo([type |-> "LoadProgram",
                                  result |-> [kind |-> "Err", error |-> "RomTooLarge"]]))
                /\ emulator' = emulator
                /\ state' = state
                /\ speed' = speed
                /\ instruction_account_balance' = instruction_account_balance ]_vars

\* C1 witness: a program of exactly 3584 bytes was accepted and run, and then
\* an oversize program was rejected.
C1_Witness ==
  /\ last.op = "load_program"
  /\ last.result.kind = "Err"
  /\ emulator.program_data.len = 3584
  /\ emulator.program_counter # ROM_START_ADDR

\* What C2 says holds after a successful load.
FullyReset(p) ==
  /\ \A r \in 0..15 : p.variable_registers[r] = 0
  /\ p.index_register = 0
  /\ p.program_counter = 512
  /\ p.stack = << >>
  /\ p.display = {}
  /\ p.delay_timer = 0
  /\ p.sound_timer = 0
  /\ p.blocking = << >>

\* C2, as claimed: after every successful load_program the registers and the
\* index register are 0, the program counter is 0x200, the stack is empty, the
\* display is off, both timers are 0 and the blocking state is None.
C2_LoadResetsEverything ==
  (last.op = "load_program" /\ last.result.kind = "Ok") => FullyReset(emulator)

\* C3, as claimed: a call of step returns Ok or a typed error, and never
\* panics; a fetch outside memory is a typed error.
C3_StepNeverPanics ==
  last.op = "step" => last.result.kind \in {"Ok", "Err"}

\* C4, as claimed: an instruction that dereferences the index register at an
\* address of 4096 or more fails with MemoryAccessOutOfBounds.
C4_DerefBoundsChecked ==
  (last.op = "step" /\ last.deref >= 4096) =>
     /\ last.result.kind = "Err"
     /\ last.result.error = "MemoryAccessOutOfBounds"

\* A response that reports an error.
IsError(r) ==
  \/ r.msg.type = "RunError"
  \/ r.msg.type \in {"LoadProgram", "Step"} /\ r.msg.result.kind = "Err"

\* C5, as claimed (its safety part): once an error has been reported, the
\* executor thread is still running, so requests sent later are processed.
C5_WorkerSurvivesErrors ==
  (\E i \in DOMAIN responses : IsError(responses[i])) => worker \in {"recv", "drain"}

\* C6: the requests in the channel are the ones sent and not yet taken, in the
\* order of sending, and the thread takes the oldest; it waits for a request
\* only with the budget of the request before at zero; the responses are in
\* the order of the requests that caused them.
C6_StrictOrder ==
  /\ \A i \in DOMAIN requests : requests[i].seq = current.seq + i
  /\ current.seq + Len(requests) = sent.client + sent.ticks
  /\ worker = "recv" => instruction_account_balance = 0
  /\ \A i, j \in DOMAIN responses : i < j => responses[i].cause <= responses[j].cause
  /\ \A i \in DOMAIN responses : responses[i].cause <= current.seq

\* C6 witness: a RunError caused by a tick is followed by the response to a
\* request sent after that tick, while another request waits in the channel.
C6_Witness ==
  /\ \E i, j \in DOMAIN responses :
       /\ i < j
       /\ responses[i].msg.type = "RunError"
       /\ responses[j].cause > responses[i].cause
  /\ requests # << >>

\* C7, as claimed: a pass of the drain loop whose step fails leaves the budget
\* at 0 and the run state Stopped and sends exactly one RunError for the
\* failure; while Stopped the budget is 0 and the drain loop is not running,
\* and a tick taken while Stopped calls no step and leaves the program counter.
C7_DrainFailureStops ==
  /\ [][ DrainStep /\ last'.result.kind # "Ok" =>
           /\ instruction_account_balance' = 0
           /\ state' = "Stopped"
           /\ worker' = "recv"
           /\ Len(responses') = Len(responses) + 1
           /\ SubSeq(responses', 1, Len(responses)) = responses
           /\ responses'[Len(responses')].cause = current.seq
           /\ responses'[Len(responses')].msg.type = "RunError"
           /\ last'.result.kind = "Err" =>
                 responses'[Len(responses')].msg.error = last'.result ]_vars
  /\ [][ ReceiveOf("TimerTick") /\ state = "Stopped" =>
           /\ last'.op = "none"
           /\ worker' = "recv"
           /\ state' = "Stopped"
           /\ responses' = responses
           /\ emulator'.program_counter = emulator.program_counter ]_vars
  /\ [](state = "Stopped" => instruction_account_balance = 0 /\ worker # "drain")

\* C7 witness: a step of the drain loop has failed and a later tick was taken
\* with the run state still Stopped.
C7_Witness ==
  /\ \E i \in DOMAIN responses : responses[i].msg.type = "RunError"
  /\ current.type = "TimerTick"
  /\ worker = "recv"
  /\ state = "Stopped"
  /\ \A i \in DOMAIN responses : responses[i].cause < current.seq

\* C8, as claimed: a Step request calls step once and is answered by exactly
\* one Step response with the result; the run state stays as it was and no
\* RunError is sent.
C8_StepAnsweredOnce ==
  [][ ReceiveOf("Step") =>
        /\ last'.op = "step"
        /\ responses' = Append(responses,
              ResponseTo([type |-> "Step", result |-> last'.result]))
        /\ state' = state
        /\ worker' = "recv" ]_vars

\* C9: before any request is taken the run state is Stopped; it changes to
\* Running only when a RunProgram request is taken, and to Stopped only when a
\* Stop request is taken or a step of the drain loop fails; RunProgram taken
\* while Running changes the speed and nothing else of the executor.
C9_RunStateMachine ==
  /\ [](current.seq = 0 => state = "Stopped")
  /\ [][ state' # state =>
           \/ state' = "Running" /\ ReceiveOf("RunProgram")
           \/ state' = "Stopped" /\ ReceiveOf("Stop")
           \/ state' = "Stopped" /\ DrainStep /\ last'.result.kind = "Err" ]_vars
  /\ [][ ReceiveOf("RunProgram") =>
           /\ state' = "Running"
           /\ speed' = Head(requests).msg.speed
           /\ emulator' = emulator
           /\ instruction_account_balance' = instruction_account_balance
           /\ responses' = responses ]_vars

\* C9 witness: a Step request failed while Running and the run state is still
\* Running.
C9_Witness ==
  /\ state = "Running"
  /\ current.type = "Step"
  /\ last.op = "step"
  /\ last.result.kind = "Err"

\* A key wait is pending: the blocking state is Some and the instruction at
\* the program counter is FX0A.
KeyWaitPending(p) ==
  /\ p.blocking # << >>
  /\ Fetchable(p)
  /\ nibble(FetchWord(p), 0) = 15
  /\ FetchWord(p) % 256 = 10

DefinedPattern(w) ==
  LET a == w \div 4096
      lo == w % 16
      nn == w % 256
  IN \/ w \in {224, 238}
     \/ a \in {1, 2, 3, 4, 6, 7, 10, 11, 12, 13}
     \/ a \in {5, 9} /\ lo = 0
     \/ a = 8 /\ lo \in (0..7) \cup {14}
     \/ a = 14 /\ nn \in {158, 161}
     \/ a = 15 /\ nn \in {7, 10, 21, 24, 30, 41, 51, 85, 101}

\* C12, as claimed: a step that fetches a word outside the instruction set
\* fails with UnknownInstruction, carrying that word and its address.
C12_UndefinedWordsFail ==
  (last.op = "step" /\ last.instruction >= 0 /\ ~DefinedPattern(last.instruction)) =>
     /\ last.result.kind = "Err"
     /\ last.result.error = "UnknownInstruction"
     /\ last.result.instruction = last.instruction
     /\ last.result.address = last.address

\* C13: a step that executes 00EE with the stack empty returns the
\* StackUnderflow error with the address and the word of the 00EE, leaves the
\* stack empty and the program counter at that address + 2, and changes
\* nothing else of the processor.
C13_ReturnOnEmptyStack ==
  [][ /\ last'.op = "step"
      /\ emulator.program_counter + 1 < 4096
      /\ FetchWord(emulator) = 238
      /\ emulator.stack = << >>
      => /\ last'.result = [ kind |-> "Err", address |-> emulator.program_counter,
                             instruction |-> 238, error |-> "StackUnderflow" ]
         /\ emulator'.stack = << >>
         /\ emulator'.program_counter = emulator.program_counter + 2
         /\ emulator' = [emulator EXCEPT !.program_counter = @ + 2] ]_vars

\* C13 witness: after a call and the return from it, the 00EE at 0x202 was
\* executed with the stack empty again.
C13_Witness ==
  /\ last.op = "step"
  /\ last.address = 514
  /\ last.instruction = 238
  /\ last.result.kind = "Err"
  /\ last.result.error = "StackUnderflow"
  /\ emulator.stack = << >>
  /\ emulator.program_counter = 516

\* C14: a timer tick taken by the executor, Running or Stopped, lowers each of
\* the delay timer and the sound timer by exactly 1 when it is not 0 and
\* leaves it at 0 when it is, and changes nothing else of the processor; both
\* timers are always in 0..255.
C14_TickDecrementsTimers ==
  /\ [][ ReceiveOf("TimerTick") =>
           /\ emulator'.delay_timer =
                 IF emulator.delay_timer = 0 THEN 0 ELSE emulator.delay_timer - 1
           /\ emulator'.sound_timer =
                 IF emulator.sound_timer = 0 THEN 0 ELSE emulator.sound_timer - 1
           /\ emulator' = [emulator EXCEPT !.delay_timer = emulator'.delay_timer,
                                           !.sound_timer = emulator'.sound_timer]
           /\ state' = state ]_vars
  /\ [](emulator.delay_timer \in 0..255 /\ emulator.sound_timer \in 0..255)

\* C14 witness: a tick taken while Running has brought both timers from 2 to
\* 1, after an earlier tick had left them at 0.
C14_Witness ==
  /\ current.type = "TimerTick"
  /\ worker = "drain"
  /\ state = "Running"
  /\ sent.ticks = 2
  /\ emulator.delay_timer = 1
  /\ emulator.sound_timer = 1
  /\ emulator.program_counter = 4096

\* ceil(r * 0.016666), in whole numbers.
CeilBudget(r) == (r * 16666 + 999999) \div 1000000

\* C15, as claimed: a tick taken while Running at rate r sets the budget to
\* ceil(r * 0.016666), whatever was left of it; every step of the drain loop
\* that succeeds takes 1 from the budget, and the loop is left only with the
\* budget at 0, so that many instructions are executed when no step fails.
C15_TickBudget ==
  /\ [][ ReceiveOf("TimerTick") /\ state = "Running" =>
           /\ instruction_account_balance' = CeilBudget(speed)
           /\ (worker' = "recv") = (CeilBudget(speed) = 0) ]_vars
  /\ [][ DrainStep /\ last'.result.kind = "Ok" =>
           /\ instruction_account_balance' = instruction_account_balance - 1
           /\ (worker' = "recv") = (instruction_account_balance' = 0) ]_vars

\* The request channel is closed: the Emulator is dropped, and with it its
\* Sender, and the timer has dropped the Sender of its closure.
Closed == front = "dropped" /\ timer = "cancelled"

C17_ResponsesNeverWaits ==
  /\ [](front = "alive" => ENABLED Responses)
  /\ [](front = "responses" => ENABLED TryRecv)
  /\ [][ /\ front = "responses" /\ front' # "responses" =>
               /\ front' = "alive"
               /\ responses = << >>
               /\ returned' = returned /\ responses' = responses
         /\ front = "responses" /\ front' = "responses" =>
               \/ UNCHANGED << returned, responses >>
               \/ /\ returned' \o responses' = returned \o responses
                  /\ Len(returned') = Len(returned) + 1
               \/ /\ returned' = returned
                  /\ Len(responses') > Len(responses)
                  /\ SubSeq(responses', 1, Len(responses)) = responses
         /\ front # "responses" /\ front' = "responses" =>
               returned' = << >> /\ responses' = responses
         /\ front # "responses" /\ front' # "responses" =>
               /\ returned' = returned
               /\ Len(responses') >= Len(responses)
               /\ SubSeq(responses', 1, Len(responses)) = responses ]_vars
  /\ [](\A i, j \in DOMAIN responses : i <= j => responses[i].cause <= responses[j].cause)

\* A call of responses that ran while the executor drained a budget has
\* returned the two responses emitted before it.
C17_Witness ==
  /\ front = "alive"
  /\ worker = "drain"
  /\ Len(returned) = 2
  /\ responses = << >>
  /\ instruction_account_balance < InstructionsPerTick(speed)

\* The responses a step appends to the response channel.
Emitted == SubSeq(responses', Len(responses) + 1, Len(responses'))

\* C18, as claimed: the executor only appends to the response channel; taking
\* a LoadProgram, Step, Display or State request appends exactly one response,
\* of the kind of the request (LoadProgram and Step with the result of the
\* call, State with the run state and Display with the framebuffer as they are
\* when the request is taken); taking any other request appends none; a pass
\* of the drain loop appends nothing or one RunError.
C18_OneResponsePerRequest ==
  [][ /\ \A t \in {"LoadProgram", "Step", "Display", "State"} :
           ReceiveOf(t) =>
             /\ SubSeq(responses', 1, Len(responses)) = responses
             /\ Len(Emitted) = 1
             /\ Emitted[1].cause = Head(requests).seq
             /\ Emitted[1].msg.type = t
             /\ t \in {"LoadProgram", "Step"} => Emitted[1].msg.result = last'.result
             /\ t = "State" => Emitted[1].msg.state = state /\ state' = state
             /\ t = "Display" => Emitted[1].msg.display = display(emulator)
      /\ \A t \in {"LoadSettings", "RunProgram", "Stop", "SendKeys", "TimerTick"} :
           ReceiveOf(t) => responses' = responses
      /\ DrainStep =>
           \/ responses' = responses
           \/ /\ SubSeq(responses', 1, Len(responses)) = responses
              /\ Len(Emitted) = 1
              /\ Emitted[1].msg.type = "RunError" ]_vars

\* Glyph d of the built-in font: its five bytes.
Glyph(d) == SubSeq(FONT, d * BYTES_PER_CHAR + 1, (d + 1) * BYTES_PER_CHAR)

\* C19, as claimed: after FX29 has been executed with VX = d below 16, the
\* five bytes of memory from the index register on are the glyph of d.
C19_FontAddressHoldsGlyph ==
  ( /\ last.op = "step"
    /\ last.result.kind = "Ok"
    /\ last.instruction >= 0
    /\ nibble(last.instruction, 0) = 15
    /\ last.instruction % 256 = 41
    /\ register(emulator, nibble(last.instruction, 1)) < NUM_FONT_CHARS ) =>
      LET d == register(emulator, nibble(last.instruction, 1))
          I == emulator.index_register
      IN [k \in 1..BYTES_PER_CHAR |-> Mem(emulator.memory, I + k - 1)] = Glyph(d)

\* C20: after a load_program that returned Ok, the byte of memory at
\* ROM_START_ADDR + i is byte i of the program, for every i below its length.
C20_ProgramLoadedVerbatim ==
  (last.op = "load_program" /\ last.result.kind = "Ok") =>
     /\ emulator.program_data.len <= MEMORY_SIZE - ROM_START_ADDR
     /\ \A i \in 0..(emulator.program_data.len - 1) :
          Mem(emulator.memory, ROM_START_ADDR + i) = ByteAt(emulator.program_data, i + 1)

\* C20 witness: the program of the largest size has been loaded, first byte at
\* ROM_START_ADDR and zeros up to the last address of memory.
C20_Witness ==
  /\ last.op = "load_program"
  /\ last.result.kind = "Ok"
  /\ emulator.program_data.len = MEMORY_SIZE - ROM_START_ADDR
  /\ Mem(emulator.memory, ROM_START_ADDR) = 97
  /\ Mem(emulator.memory, MEMORY_SIZE - 1) = 0

\* A step is taken that executes the word 8XYk with k in `ops'.
StepsArithmetic(ops) ==
  /\ last'.op = "step"
  /\ Fetchable(emulator)
  /\ nibble(FetchWord(emulator), 0) = 8
  /\ nibble(FetchWord(emulator), 3) \in ops

\* C21: 8XY4 leaves (VX + VY) mod 256 in VX and VF = 1 iff VX + VY > 255;
\* 8XY5 (VX - VY) and 8XY7 (VY - VX) leave the difference mod 256 in VX and
\* VF = 1 iff the minuend is not below the subtrahend; with X = 15 VF holds
\* the flag; no other register changes and the step succeeds.
C21_AddSubFlags ==
  [][ StepsArithmetic({4, 5, 7}) =>
        LET w == FetchWord(emulator)
            x == nibble(w, 1)
            k == nibble(w, 3)
            vx == emulator.variable_registers[x]
            vy == emulator.variable_registers[nibble(w, 2)]
            value == CASE k = 4 -> (vx + vy) % 256
                       [] k = 5 -> (vx - vy) % 256
                       [] k = 7 -> (vy - vx) % 256
            flag == CASE k = 4 -> IF vx + vy > 255 THEN 1 ELSE 0
                      [] k = 5 -> IF vx >= vy THEN 1 ELSE 0
                      [] k = 7 -> IF vy >= vx THEN 1 ELSE 0
        IN /\ last'.result.kind = "Ok"
           /\ emulator'.variable_registers[15] = flag
           /\ x # 15 => emulator'.variable_registers[x] = value
           /\ \A r \in 0..14 : r # x =>
                 emulator'.variable_registers[r] = emulator.variable_registers[r] ]_vars

\* C21 witness: 8F14 was executed with VF = 128 and V1 = 128: the sum is 256,
\* its low byte 0, and VF holds the flag 1.
C21_Witness ==
  /\ last.op = "step"
  /\ last.instruction = 36628
  /\ last.result.kind = "Ok"
  /\ emulator.variable_registers[1] = 128
  /\ emulator.variable_registers[15] = 1
  /\ emulator.program_counter = 518

\* C22, as claimed: after 8XY6 VF holds bit 0 and after 8XYE bit 7 of the
\* operand, which is VY when the quirk of the instruction is set and VX
\* otherwise, whatever X is.
C22_ShiftFlag ==
  [][ StepsArithmetic({6, 14}) =>
        LET w == FetchWord(emulator)
            k == nibble(w, 3)
            vx == emulator.variable_registers[nibble(w, 1)]
            vy == emulator.variable_registers[nibble(w, 2)]
            quirk == IF k = 6 THEN emulator.settings.use_vy_in_8xy6
                     ELSE emulator.settings.use_vy_in_8xye
            operand == IF quirk THEN vy ELSE vx
        IN emulator'.variable_registers[15] =
             IF k = 6 THEN operand % 2 ELSE (operand \div 128) % 2 ]_vars

\* The pixels a DXYN word w addresses on processor p: for each of its N rows
\* and each set bit of the row's byte (bit 7 leftmost), the cell that many
\* columns right of VX mod 64 and rows below VY mod 32, when it is inside
\* the display.
SpritePixels(p, w) ==
  LET dx == p.variable_registers[nibble(w, 1)] % 64
      dy == p.variable_registers[nibble(w, 2)] % 32
      bit(i, j) == (Mem(p.memory, p.index_register + i) \div 2 ^ (7 - j)) % 2
  IN { (dy + c[1]) * 64 + dx + c[2] :
         c \in { c \in (0..(nibble(w, 3) - 1)) \X (0..7) :
                   dy + c[1] < 32 /\ dx + c[2] < 64 /\ bit(c[1], c[2]) = 1 } }

\* A step is taken that executes a DXYN word and returns.
StepsDraw ==
  /\ last'.op = "step"
  /\ last'.result.kind # "Panic"
  /\ Fetchable(emulator)
  /\ nibble(FetchWord(emulator), 0) = 13

\* The step before was a successful draw of the same word, at the address
\* before this one, with the same index register and the same position.
AfterSameDraw ==
  LET w == FetchWord(emulator)
  IN /\ last.op = "step"
     /\ last.result.kind = "Ok"
     /\ last.instruction = w
     /\ last.address + 2 = emulator.program_counter
     /\ last.index_register = emulator.index_register
     /\ \A i \in {1, 2} :
          last.variable_registers[nibble(w, i)] % (IF i = 1 THEN 64 ELSE 32) =
          emulator.variable_registers[nibble(w, i)] % (IF i = 1 THEN 64 ELSE 32)

\* C23: the second of two draws of the same sprite at the same position
\* leaves the framebuffer as it was before the first; when the sprite has a
\* set bit inside the display and its pixels were off before the first draw,
\* the first draw left VF = 0 and the second leaves those pixels off and
\* VF = 1.
C23_DrawTwiceRestores ==
  [][ StepsDraw /\ AfterSameDraw =>
        LET target == SpritePixels(emulator, FetchWord(emulator))
        IN /\ last'.result.kind = "Ok"
           /\ emulator'.display = last.display
           /\ (target # {} /\ target \cap last.display = {}) =>
                 /\ emulator.variable_registers[15] = 0
                 /\ target \cap emulator'.display = {}
                 /\ emulator'.variable_registers[15] = 1 ]_vars

\* C23 witness: the sprite 255, 129, 255 was drawn twice at (60, 29) over
\* the four pixels put at (60..63, 30) before: the framebuffer is those four
\* pixels again and VF = 1.
C23_Witness ==
  /\ last.op = "step"
  /\ last.instruction = 53811
  /\ last.address = 528
  /\ last.variable_registers[2] = 124
  /\ last.variable_registers[3] = 29
  /\ last.display # {}
  /\ emulator.display = {30 * 64 + 60, 30 * 64 + 61, 30 * 64 + 62, 30 * 64 + 63}
  /\ emulator.variable_registers[15] = 1

\* C24: a draw toggles exactly the pixels its set bits address from column
\* VX mod 64 and row VY mod 32 on, inside the display: none left of that
\* column or above that row, none wrapped to the opposite edge, and the rows
\* below a row cut at the right edge are drawn.
C24_DrawClips ==
  [][ StepsDraw =>
        LET w == FetchWord(emulator)
            dx == emulator.variable_registers[nibble(w, 1)] % 64
            dy == emulator.variable_registers[nibble(w, 2)] % 32
            target == SpritePixels(emulator, w)
            changed == (emulator'.display \ emulator.display)
                         \cup (emulator.display \ emulator'.display)
        IN /\ changed = target
           /\ \A c \in changed : c % 64 >= dx /\ c \div 64 >= dy /\ c \div 64 <= 31 ]_vars

\* C24 witness: the sprite 255, 129, 255 was drawn on the empty framebuffer
\* at (60, 30): the four columns 60..63 of row 30 and, of the second row,
\* column 60 of row 31 are on, and nothing else.
C24_Witness ==
  /\ last.op = "step"
  /\ last.instruction = 53811
  /\ last.display = {}
  /\ last.variable_registers[2] = 124
  /\ last.variable_registers[3] = 62
  /\ emulator.display = {30 * 64 + 60, 30 * 64 + 61, 30 * 64 + 62, 30 * 64 + 63,
                          31 * 64 + 60}

\* C25: with the program 00E0, 1202 loaded, the step taken at 0x200 leaves
\* the framebuffer all off and the program counter at 0x202 and changes
\* nothing else; every other step is taken at 0x202, succeeds and leaves the
\* whole processor as it is.
C25_ClearThenSpin ==
  [][ emulator.program_data = Rom("clear") /\ last'.op = "step" =>
        /\ last'.result.kind = "Ok"
        /\ IF emulator.program_counter = 512
           THEN /\ emulator'.display = {}
                /\ emulator'.program_counter = 514
                /\ emulator' = [emulator EXCEPT !.program_counter = 514, !.display = {}]
           ELSE /\ emulator.program_counter = 514
                /\ emulator' = emulator ]_vars

\* C25 witness: the self-jump at 0x202 has been executed.
C25_Witness ==
  /\ emulator.program_data = Rom("clear")
  /\ last.op = "step"
  /\ last.address = 514
  /\ last.instruction = 4610
  /\ emulator.program_counter = 514
  /\ emulator.display = {}

\* C26, as claimed: Display::get returns false for every coordinate with
\* x >= 64 or y >= 32, and the pixel in column x of row y for every other.
C26_GetOutsideIsOff ==
  last.op = "get" =>
    last.result = IF last.x >= 64 \/ last.y >= 32 THEN FALSE
                  ELSE (last.y * 64 + last.x) \in emulator.display

\* C27: the settings record of the processor changes only in the step that
\* takes a LoadSettings request; that step makes it the record of the request,
\* all five switches, and changes nothing else of the processor; before any
\* request it is the default record.
C27_SettingsChangeOnlyOnLoadSettings ==
  /\ [](current.seq = 0 => emulator.settings = DefaultSettings)
  /\ [][ emulator'.settings # emulator.settings => ReceiveOf("LoadSettings") ]_vars
  /\ [][ ReceiveOf("LoadSettings") =>
           /\ emulator'.settings = Head(requests).msg.settings
           /\ emulator' = [emulator EXCEPT !.settings = Head(requests).msg.settings] ]_vars

\* C27 witness: settings loaded before a program are still there after the
\* program was loaded and a rejected one after it.
C27_Witness ==
  /\ emulator.settings = OtherSettings
  /\ emulator.program_data.len = MEMORY_SIZE - ROM_START_ADDR
  /\ current.type = "LoadProgram"
  /\ last.op = "load_program"
  /\ last.result.kind = "Err"

\* C28, as claimed: a step that does not succeed returns an error that
\* carries the address the word was fetched from and the word, and leaves the
\* program counter at that address + 2.
C28_FailureReportsAddressAndWord ==
  (last.op = "step" /\ last.result.kind # "Ok") =>
     /\ last.result.kind = "Err"
     /\ last.result.address = last.address
     /\ last.result.instruction = last.instruction
     /\ last.instruction =
          Mem(emulator.memory, last.address) * 256 + Mem(emulator.memory, last.address + 1)
     /\ emulator.program_counter = last.address + 2

\* C29, as claimed: whenever the blocking state holds a snapshot, the word at
\* the program counter is the key-wait instruction FX0A.
C29_BlockedOnlyAtKeyWait ==
  emulator.blocking # << >> =>
    /\ Fetchable(emulator)
    /\ nibble(FetchWord(emulator), 0) = 15
    /\ FetchWord(emulator) % 256 = 10

\* C30: a timer tick taken while Stopped leaves the processor as it is but
\* for the two timers, which do not go up; the budget stays zero, the thread
\* goes back to recv without a pass of the drain loop, and nothing is sent.
\* The drain loop runs only while Running, and while Stopped step is called
\* only for a Step request.
C30_StoppedTickRunsNothing ==
  /\ [][ ReceiveOf("TimerTick") /\ state = "Stopped" =>
           /\ [emulator' EXCEPT !.delay_timer = emulator.delay_timer,
                                !.sound_timer = emulator.sound_timer] = emulator
           /\ emulator'.delay_timer <= emulator.delay_timer
           /\ emulator'.sound_timer <= emulator.sound_timer
           /\ instruction_account_balance' = 0
           /\ worker' = "recv"
           /\ state' = "Stopped"
           /\ responses' = responses ]_vars
  /\ [](worker = "drain" => state = "Running")
  /\ [](state = "Stopped" /\ worker # "panicked" => instruction_account_balance = 0)
  /\ [][ state = "Stopped" /\ last'.op = "step" /\ last' # last =>
           ReceiveOf("Step") ]_vars

\* C30 witness: two Step requests set the delay timer to 2, and a tick taken
\* while still Stopped lowered it to 1 with the program counter where it was.
C30_Witness ==
  /\ state = "Stopped"
  /\ current.type = "TimerTick"
  /\ worker = "recv"
  /\ emulator.delay_timer = 1
  /\ emulator.program_counter = 516
  /\ last.op = "none"

\* C31, as claimed: the drain loop is entered with a budget of at most the
\* tick's budget, every pass of it lowers the budget, and the thread stays in
\* the loop or goes back to recv: it is back at recv after at most that many
\* passes.
C31_DrainIsBounded ==
  /\ [](worker = "drain" =>
          instruction_account_balance \in 1..InstructionsPerTick(speed))
  /\ [][ DrainStep =>
           /\ instruction_account_balance' < instruction_account_balance
           /\ worker' = IF instruction_account_balance' = 0 THEN "recv" ELSE "drain" ]_vars

\* What Executor::handle_sound tells the audio for processor p.
Told(p) == IF p.sound_timer > 0 THEN "play" ELSE "pause"

\* C32: whenever the executor thread has finished with a request, any
\* draining of the budget included, and waits for the next one, the last call
\* made on the audio is play if the sound timer is above 0 and pause if it is
\* 0; the call is made as the handling ends, and nothing is called while the
\* thread waits.
C32_SoundFollowsTimer ==
  /\ [](worker = "recv" /\ current.type # "none" => sound = Told(emulator))
  /\ [][ sent' = sent /\ worker # "panicked" /\ worker' = "recv"
           => sound' = Told(emulator') ]_vars
  /\ [][ sent' # sent => sound' = sound ]_vars

\* A tick whose drain ran F118 with V1 = 2 has ended on a failing step: the
\* sound timer is 2 and the audio was told to play.
C32_Witness ==
  /\ worker = "recv"
  /\ current.type = "TimerTick"
  /\ emulator.sound_timer = 2
  /\ sound = "play"
  /\ state = "Stopped"

\* The processor executes FX55 (low = 85) or FX65 (low = 101).
StepsBulk(low) ==
  /\ last'.op = "step"
  /\ Fetchable(emulator)
  /\ nibble(FetchWord(emulator), 0) = 15
  /\ FetchWord(emulator) % 256 = low

\* The index register after FX55 or FX65 with X = x under the settings of p.
Advanced(p, x) ==
  IF p.settings.inc_i_in_fx55_and_fx65
  THEN p.index_register + x + 1
  ELSE p.index_register

\* C33: a successful FX55 leaves V0..VX in memory[I..I+X] and a successful
\* FX65 leaves memory[I..I+X] in V0..VX; FX55 changes no register and no
\* other cell, FX65 no other register and no cell, failing or not; the index
\* register ends at I with the index-advance switch off and at I + X + 1 with
\* it on, and nothing but the program counter changes besides; with the
\* switch off, FX65 right after FX55 leaves every register as it was before
\* the FX55.
C33_BulkStoreLoad ==
  /\ [][ StepsBulk(85) =>
          LET x == nibble(FetchWord(emulator), 1)
              i == emulator.index_register
          IN /\ emulator'.variable_registers = emulator.variable_registers
             /\ \A a \in (0..(MEMORY_SIZE - 1)) \ (i..(i + x)) :
                   Mem(emulator'.memory, a) = Mem(emulator.memory, a)
             /\ last'.result.kind = "Ok" =>
                   /\ \A k \in 0..x :
                         Mem(emulator'.memory, i + k) = emulator.variable_registers[k]
                   /\ emulator' =
                        [emulator EXCEPT !.memory = emulator'.memory,
                                         !.index_register = Advanced(emulator, x),
                                         !.program_counter = @ + 2] ]_vars
  /\ [][ StepsBulk(101) =>
          LET x == nibble(FetchWord(emulator), 1)
              i == emulator.index_register
          IN /\ emulator'.memory = emulator.memory
             /\ \A k \in (x + 1)..15 :
                   emulator'.variable_registers[k] = emulator.variable_registers[k]
             /\ last'.result.kind = "Ok" =>
                   /\ \A k \in 0..x :
                         emulator'.variable_registers[k] = Mem(emulator.memory, i + k)
                   /\ emulator' =
                        [emulator EXCEPT !.variable_registers = emulator'.variable_registers,
                                         !.index_register = Advanced(emulator, x),
                                         !.program_counter = @ + 2] ]_vars
  /\ [][ /\ StepsBulk(101)
          /\ last'.result.kind = "Ok"
          /\ last.op = "step"
          /\ last.result.kind = "Ok"
          /\ last.instruction = FetchWord(emulator) - 16
          /\ ~emulator.settings.inc_i_in_fx55_and_fx65
          => emulator'.variable_registers = last.variable_registers ]_vars

\* FX65 with X = 1 and the switch on has loaded V0 and V1 from 0x201 and
\* 0x202, the program's own bytes 7 and 0x61, after F155 stored V0 = 7 and
\* V1 = 9 at 0x1FF and 0x200 and advanced I to 0x201.
C33_Witness ==
  /\ last.op = "step"
  /\ last.instruction = 61797
  /\ last.result.kind = "Ok"
  /\ emulator.settings.inc_i_in_fx55_and_fx65
  /\ Mem(emulator.memory, 511) = 7
  /\ Mem(emulator.memory, 512) = 9
  /\ emulator.variable_registers[0] = 7
  /\ emulator.variable_registers[1] = 97
  /\ emulator.index_register = 515

\* C34: the budget is 0 in every step that takes a request from the channel,
\* whatever the request; it is never negative and is above 0 only while the
\* run state is Running; and every pass of the drain loop starts with the run
\* state Running.
C34_BudgetOnlyWhileRunning ==
  /\ [][ Len(requests') < Len(requests) =>
           /\ instruction_account_balance = 0
           /\ current'.type = Head(requests).msg.type ]_vars
  /\ [](instruction_account_balance >= 0)
  /\ [](instruction_account_balance > 0 => state = "Running")
  /\ [][ DrainStep => state = "Running" /\ instruction_account_balance > 0 ]_vars

\* A Stop request waits in the channel while the drain loop still has budget
\* to spend.
C34_Witness ==
  /\ worker = "drain"
  /\ instruction_account_balance > 0
  /\ requests # << >>
  /\ Head(requests).msg.type = "Stop"

\* The processor executes FX1E.
StepsAddIndex ==
  /\ last'.op = "step"
  /\ Fetchable(emulator)
  /\ nibble(FetchWord(emulator), 0) = 15
  /\ FetchWord(emulator) % 256 = 30

\* The addresses index_register + i that FX55 or FX65 with X = x computes on
\* p: the loop goes on to i only if the access at i - 1 succeeded.
Computed(p, x) ==
  { p.index_register + i :
      i \in { j \in 0..x : j = 0 \/ p.index_register + j - 1 < MEMORY_SIZE } }

\* C35, as claimed: the index register is a 16-bit value in every state;
\* FX1E never panics and leaves exactly I + VX in the index register; FX55 and
\* FX65 never panic, compute no address I + i above 0xFFFF and, when they
\* succeed, leave exactly I or I + X + 1 in the index register.
C35_IndexWithinU16 ==
  /\ [](emulator.index_register \in 0..(U16 - 1))
  /\ [][ StepsAddIndex =>
           /\ last'.result.kind = "Ok"
           /\ emulator'.index_register =
                 emulator.index_register
                   + register(emulator, nibble(FetchWord(emulator), 1)) ]_vars
  /\ [][ StepsBulk(85) \/ StepsBulk(101) =>
           LET x == nibble(FetchWord(emulator), 1)
           IN /\ last'.result.kind # "Panic"
              /\ \A a \in Computed(emulator, x) : a < U16
              /\ emulator'.index_register =
                    IF last'.result.kind = "Ok" THEN Advanced(emulator, x)
                    ELSE emulator.index_register ]_vars

\* C36: nibble(v, i) with i in 0..3 is a value of 0..15, the four of them
\* satisfy n0 * 4096 + n1 * 256 + n2 * 16 + n3 = v, which makes n_i the i-th
\* 4-bit field of v from the most significant, and the call returned n_i; with
\* i above 3 the call panics.
C36_NibbleFields ==
  last.op = "nibble" =>
    IF last.index <= 3
    THEN LET n == [i \in 0..3 |-> nibble(last.value, i)]
         IN /\ \A i \in 0..3 : n[i] \in 0..15
            /\ n[0] * 4096 + n[1] * 256 + n[2] * 16 + n[3] = last.value
            /\ last.result = n[last.index]
    ELSE last.result = "Panic"

\* nibble(0x8F17, 1) returned 0xF.
C36_Witness ==
  /\ last.op = "nibble"
  /\ last.value = 36631
  /\ last.index = 1
  /\ last.result = 15

=============================================================================
